---- MODULE Spec2Model ----
(***************************************************************************)
(* A model of ilias-rs: the lazy Reference cell (src/src/reference.rs),    *)
(* the memoizing accessors Assignment::get_submission and                  *)
(* Exercise::get_grades, the login handshake IliasClient::authenticate and *)
(* post_querypath_form (src/src/client.rs), the addressing functions of    *)
(* the IliasElement trait, Folder::parse (src/src/folder.rs) and the       *)
(* submission rows of GradePage::parse (src/src/exercise/grades), the      *)
(* upload_files GradeSubmission::upload and Folder::upload_files,               *)
(* FolderElement::delete, Assignment::parse and Exercise::parse, and the   *)
(* loops that look for a date among the cells of a row.  The remote        *)
(* platform is the environment: every response it gives is drawn from a    *)
(* small set.                                                              *)
(***************************************************************************)
EXTENDS Integers, Sequences, FiniteSets, TLC

VARIABLES
    refs,        \* the Reference cells, by owner
    ncalls,      \* number of resolve / get_submission / get_grades calls made so far
    stats,       \* per reference: calls made on it, calls that succeeded, fetches they issued
    last,        \* the last call on a reference: operation, argument, result, fetches
    crashed,     \* the process was aborted by a panic
    base_url,    \* IliasClient.base_url
    auth,        \* the run of IliasClient::authenticate: position, locals, requests, result
    addr,        \* the last call of type_identifier / querypath_from_id / the id pattern
    post,        \* the calls of IliasClient::post_querypath_form: requests sent, last result
    folder,      \* the run of Folder::parse: the listing, the elements built, the result
    grade,       \* the run of GradePage::parse over the submission rows
    upload,      \* the call of GradeSubmission::upload: the page, the requests, the result
    upload_files, \* the call of Folder::upload_files: the files, the requests, the result
    element,     \* a folder element: its deletion endpoint, the requests of delete, the result
    exercise,    \* the run of Assignment::parse / Exercise::parse: fetches, references, result
    scan,        \* a loop that looks for a date: the cells, the position, the result
    client       \* a call of get_querypath / post_querypath_multipart / download_file

vars ==
    <<refs, ncalls, stats, last, crashed, base_url, auth, addr, post, folder, grade,
      upload, upload_files, element, exercise, scan, client>>

refVars == <<refs, ncalls, stats, last, crashed>>

coreVars == <<refVars, base_url, auth>>

opVars == <<upload, upload_files, element, exercise, scan, client>>

libVars == <<addr, post, folder, grade, opVars>>

----------------------------------------------------------------------------
(* Bounds *)

MaxCalls == 3
MaxOptions == 2
MaxForms == 2

----------------------------------------------------------------------------
(* Option<T>: the empty set is None, a singleton is Some(x) *)

NoneOpt == {}

Some(x) == {x}

Unwrap(o) == CHOOSE x \in o : TRUE

(* Result<T>: Ok(Some(v)), Ok(None), Err(msg); and a panic, which aborts *)

Ok(v) == [status |-> "Ok", value |-> {v}, msg |-> ""]

OkNone == [status |-> "Ok", value |-> {}, msg |-> ""]

Err(m) == [status |-> "Err", value |-> {}, msg |-> m]

Panic(m) == [status |-> "Panic", value |-> {}, msg |-> m]

----------------------------------------------------------------------------
(* Reference<T> *)

Absent == [tag |-> "Absent", querypath |-> {}, value |-> {}]

Unavailable == [tag |-> "Unavailable", querypath |-> {}, value |-> {}]

Unresolved(q) == [tag |-> "Unresolved", querypath |-> {q}, value |-> {}]

Resolved(v) == [tag |-> "Resolved", querypath |-> {}, value |-> {v}]

FromOptionalAlwaysUnresolved(querypath) ==
    IF querypath = NoneOpt THEN Unresolved(<<>>) ELSE Unresolved(Unwrap(querypath))

FromOptionalQuerypath(querypath) ==
    IF querypath = NoneOpt THEN Unavailable ELSE Unresolved(Unwrap(querypath))

TryGetResolved(ref) == IF ref.tag = "Resolved" THEN ref.value ELSE NoneOpt

(* The references of the model: a Reference<GradePage> held by the caller   *)
(* (the only Reference<T> with T: IliasElement, so the only one resolve     *)
(* exists for), an Assignment's submission and an Exercise's grades.        *)
Refs == {"page", "submission", "grades"}

Querypaths == {<<"q1">>, <<"q2">>}

PageValues == {"gp1", "gp2"}

(* What the platform answers to a GET: no response, or a document *)
NoResponse == [ok |-> FALSE, doc |-> {}]

Document(d) == [ok |-> TRUE, doc |-> {d}]

(* A grade page document, by what GradePage::parse makes of it *)
PageDocs == {[parsed |-> NoneOpt]} \cup {[parsed |-> Some(v)] : v \in PageValues}

PageResponses == {NoResponse} \cup {Document(d) : d \in PageDocs}

(* GradePage::parse: a typed error or the page; it issues no request *)
GradePageParse(doc) ==
    IF doc.parsed = NoneOpt
    THEN [result |-> Err("Could not parse grade page"), fetches |-> <<>>]
    ELSE [result |-> Ok(Unwrap(doc.parsed)), fetches |-> <<>>]

(* Reference::resolve: returns the parsed value, takes &self *)
ResolveMemoizing(ref, resp) ==
    CASE ref.tag = "Unavailable" ->
            [ref |-> ref, result |-> Err("Reference unavailable"), fetches |-> <<>>]
      [] ref.tag = "Resolved" ->
            [ref |-> ref, result |-> Ok(Unwrap(ref.value)), fetches |-> <<>>]
      [] OTHER ->
            LET q == Unwrap(ref.querypath) IN
            IF ~resp.ok
            THEN [ref |-> ref, result |-> Err("Could not get text for querypath"),
                  fetches |-> <<q>>]
            ELSE LET p == GradePageParse(Unwrap(resp.doc)) IN
                 [ref |-> IF p.result.status = "Ok"
                          THEN Resolved(Unwrap(p.result.value)) ELSE ref,
                  result |-> p.result, fetches |-> <<q>> \o p.fetches]

Resolve(ref, resp) ==
    CASE ref.tag = "Unavailable" ->
            [ref |-> ref, result |-> Err("Reference unavailable"), fetches |-> <<>>]
      [] ref.tag = "Resolved" ->
            [ref |-> ref, result |-> Err("Already resolved"), fetches |-> <<>>]
      [] OTHER ->
            LET q == Unwrap(ref.querypath) IN
            IF ~resp.ok
            THEN [ref |-> ref, result |-> Err("Could not get text for querypath"),
                  fetches |-> <<q>>]
            ELSE LET p == GradePageParse(Unwrap(resp.doc)) IN
                 [ref |-> ref, result |-> p.result, fetches |-> <<q>> \o p.fetches]

----------------------------------------------------------------------------
(* Assignment::get_submission *)

(* The submissions page, by the elements parse_submissions_page looks for *)
SubmissionDocs ==
    [rows_ok : BOOLEAN,
     delete_action : {NoneOpt, Some(<<"del">>)},
     upload_action : {NoneOpt, Some(<<"upl">>)}]

SubmissionResponses == {NoResponse} \cup {Document(d) : d \in SubmissionDocs}

(* The upload page: the upload querypath its inline script embeds, if any *)
UploadDocs == [script : {NoneOpt, Some(<<"ilias.php", "?", "cmd=upload">>)}]

UploadResponses == {NoResponse} \cup {Document(d) : d \in UploadDocs}

AssignmentSubmission(rows, del, upl) ==
    [submissions |-> rows, delete_querypath |-> del, upload_querypath |-> upl]

ParseSubmissionsPage(page, uploadResp) ==
    IF ~page.rows_ok
    THEN [result |-> Err("Did not find column in table"), fetches |-> <<>>]
    ELSE IF page.delete_action = NoneOpt
    THEN [result |-> Err("Did not find deletion form"), fetches |-> <<>>]
    ELSE IF page.upload_action = NoneOpt
    THEN [result |-> Err("Did not find upload button"), fetches |-> <<>>]
    ELSE LET u == Unwrap(page.upload_action) IN
         IF ~uploadResp.ok
         THEN [result |-> Err("Could not get text for querypath"), fetches |-> <<u>>]
         ELSE IF Unwrap(uploadResp.doc).script = NoneOpt
         THEN [result |-> Err("Could not find upload querypath"), fetches |-> <<u>>]
         ELSE [result |-> Ok(AssignmentSubmission("rows",
                                 Unwrap(page.delete_action),
                                 Unwrap(Unwrap(uploadResp.doc).script))),
               fetches |-> <<u>>]

GetSubmissionPoisoning(ref, resp, uploadResp) ==
    CASE ref.tag = "Unavailable" ->
            [ref |-> ref, result |-> OkNone, fetches |-> <<>>]
      [] ref.tag = "Resolved" ->
            [ref |-> ref, result |-> Ok(Unwrap(ref.value)), fetches |-> <<>>]
      [] OTHER ->
            LET q == Unwrap(ref.querypath) IN
            IF ~resp.ok
            THEN [ref |-> Unavailable, result |-> Err("Could not get submission page"),
                  fetches |-> <<q>>]
            ELSE LET p == ParseSubmissionsPage(Unwrap(resp.doc), uploadResp) IN
                 IF p.result.status = "Ok"
                 THEN [ref |-> Resolved(Unwrap(p.result.value)),
                       result |-> p.result, fetches |-> <<q>> \o p.fetches]
                 ELSE [ref |-> Unavailable, result |-> Err("Could not parse submission page"),
                       fetches |-> <<q>> \o p.fetches]

GetSubmissionGivingUp(ref, resp, uploadResp) ==
    CASE ref.tag = "Unavailable" ->
            [ref |-> ref, result |-> OkNone, fetches |-> <<>>]
      [] ref.tag = "Resolved" ->
            [ref |-> ref, result |-> Ok(Unwrap(ref.value)), fetches |-> <<>>]
      [] OTHER ->
            LET q == Unwrap(ref.querypath) IN
            IF ~resp.ok
            THEN [ref |-> ref, result |-> Err("Could not get submission page"),
                  fetches |-> <<q>>]
            ELSE LET p == ParseSubmissionsPage(Unwrap(resp.doc), uploadResp) IN
                 IF p.result.status = "Ok"
                 THEN [ref |-> Resolved(Unwrap(p.result.value)),
                       result |-> p.result, fetches |-> <<q>> \o p.fetches]
                 ELSE [ref |-> IF p.fetches = <<>> THEN ref ELSE Unavailable,
                       result |-> Err("Could not parse submission page"),
                       fetches |-> <<q>> \o p.fetches]

GetSubmissionNotStoring(ref, resp, uploadResp) ==
    CASE ref.tag = "Unavailable" ->
            [ref |-> ref, result |-> OkNone, fetches |-> <<>>]
      [] ref.tag = "Resolved" ->
            [ref |-> ref, result |-> Ok(Unwrap(ref.value)), fetches |-> <<>>]
      [] OTHER ->
            LET q == Unwrap(ref.querypath) IN
            IF ~resp.ok
            THEN [ref |-> ref, result |-> Err("Could not get submission page"),
                  fetches |-> <<q>>]
            ELSE LET p == ParseSubmissionsPage(Unwrap(resp.doc), uploadResp) IN
                 IF p.result.status = "Ok"
                 THEN [ref |-> ref, result |-> p.result, fetches |-> <<q>> \o p.fetches]
                 ELSE [ref |-> ref, result |-> Err("Could not parse submission page"),
                       fetches |-> <<q>> \o p.fetches]

GetSubmission(ref, resp, uploadResp) ==
    CASE ref.tag = "Unavailable" ->
            [ref |-> ref, result |-> OkNone, fetches |-> <<>>]
      [] ref.tag = "Resolved" ->
            [ref |-> ref, result |-> Ok(Unwrap(ref.value)), fetches |-> <<>>]
      [] OTHER ->
            LET q == Unwrap(ref.querypath) IN
            IF ~resp.ok
            THEN [ref |-> ref, result |-> Err("Could not get submission page"),
                  fetches |-> <<q>>]
            ELSE LET p == ParseSubmissionsPage(Unwrap(resp.doc), uploadResp)
                     submission == Resolved(Unwrap(p.result.value))
                 IN
                 IF p.result.status = "Ok"
                 THEN [ref |-> submission,
                       result |-> [OkNone EXCEPT !.value = TryGetResolved(submission)],
                       fetches |-> <<q>> \o p.fetches]
                 ELSE [ref |-> ref, result |-> Err("Could not parse submission page"),
                       fetches |-> <<q>> \o p.fetches]

----------------------------------------------------------------------------
(* Exercise::get_grades *)

AssIds == {"7"}

OptionLists ==
    UNION {[1..n -> {NoneOpt} \cup {Some(a) : a \in AssIds}] : n \in 0..MaxOptions}

(* The grades page: the value attribute of each option of select#ass_id *)
GradesDocs == [options : OptionLists]

GradesResponses == {NoResponse} \cup {Document(d) : d \in GradesDocs}

(* Grades::parse: one Unresolved reference per option; an option without a  *)
(* value panics                                                            *)
GradesParse(doc, base_querypath) ==
    IF \E i \in DOMAIN doc.options : doc.options[i] = NoneOpt
    THEN Panic("Option did not have a value")
    ELSE Ok([assignment_grades |->
               [i \in DOMAIN doc.options |->
                   Unresolved(base_querypath \o <<"&ass_id=", Unwrap(doc.options[i])>>)]])

GetGrades(ref, resp) ==
    CASE ref.tag = "Unavailable" ->
            [ref |-> ref, result |-> OkNone, fetches |-> <<>>]
      [] ref.tag = "Resolved" ->
            [ref |-> ref, result |-> Ok(Unwrap(ref.value)), fetches |-> <<>>]
      [] OTHER ->
            LET q == Unwrap(ref.querypath) IN
            IF ~resp.ok
            THEN [ref |-> ref, result |-> Panic("Could not get submission page"),
                  fetches |-> <<q>>]
            ELSE LET p == GradesParse(Unwrap(resp.doc), q) IN
                 IF p.status = "Ok"
                 THEN [ref |-> Resolved(Unwrap(p.value)),
                       result |-> [OkNone EXCEPT !.value = TryGetResolved(Resolved(Unwrap(p.value)))],
                       fetches |-> <<q>>]
                 ELSE [ref |-> ref, result |-> p, fetches |-> <<q>>]

----------------------------------------------------------------------------
(* The calls on the references *)

NoCall ==
    [op |-> "none", ref |-> "none", pre |-> Absent, arg |-> {},
     result |-> OkNone, fetches |-> <<>>]

NoStats == [born |-> "Absent", calls |-> 0, oks |-> 0, fetches |-> 0]

Record(op, r, arg, step) ==
    /\ refs' = [refs EXCEPT ![r] = step.ref]
    /\ last' = [op |-> op, ref |-> r, pre |-> refs[r], arg |-> arg,
                result |-> step.result, fetches |-> step.fetches]
    /\ stats' = [stats EXCEPT ![r] =
                    [born |-> @.born,
                     calls |-> @.calls + 1,
                     oks |-> @.oks + (IF step.result.status = "Ok" THEN 1 ELSE 0),
                     fetches |-> @.fetches + Len(step.fetches)]]
    /\ crashed' = (step.result.status = "Panic")

(* The owner builds its reference: Assignment::parse and Exercise::parse    *)
(* (and a caller holding a Reference<GradePage>) use from_optional_querypath *)
Construct(r) ==
    /\ ~crashed
    /\ refs[r].tag = "Absent"
    /\ \E querypath \in {NoneOpt} \cup {Some(q) : q \in Querypaths} :
          /\ refs' = [refs EXCEPT ![r] = FromOptionalQuerypath(querypath)]
          /\ stats' = [stats EXCEPT ![r].born = FromOptionalQuerypath(querypath).tag]
          /\ last' = [NoCall EXCEPT !.op = "from_optional_querypath", !.ref = r,
                                    !.arg = querypath]
    /\ UNCHANGED <<ncalls, crashed, base_url, auth, libVars>>

(* A caller wraps a grade page it already holds: the variant Resolved(T) *)
ConstructResolved ==
    /\ ~crashed
    /\ refs["page"].tag = "Absent"
    /\ \E v \in PageValues :
          /\ refs' = [refs EXCEPT !["page"] = Resolved(v)]
          /\ stats' = [stats EXCEPT !["page"].born = "Resolved"]
          /\ last' = [NoCall EXCEPT !.op = "Resolved", !.ref = "page", !.arg = {v}]
    /\ UNCHANGED <<ncalls, crashed, base_url, auth, libVars>>

CallResolve ==
    /\ ~crashed
    /\ ncalls < MaxCalls
    /\ refs["page"].tag # "Absent"
    /\ \E resp \in PageResponses :
          Record("resolve", "page", {}, Resolve(refs["page"], resp))
    /\ ncalls' = ncalls + 1
    /\ UNCHANGED <<base_url, auth, libVars>>

CallGetSubmission ==
    /\ ~crashed
    /\ ncalls < MaxCalls
    /\ refs["submission"].tag # "Absent"
    /\ \E resp \in SubmissionResponses, uploadResp \in UploadResponses :
          Record("get_submission", "submission", {},
                 GetSubmission(refs["submission"], resp, uploadResp))
    /\ ncalls' = ncalls + 1
    /\ UNCHANGED <<base_url, auth, libVars>>

CallGetGrades ==
    /\ ~crashed
    /\ ncalls < MaxCalls
    /\ refs["grades"].tag # "Absent"
    /\ \E resp \in GradesResponses :
          Record("get_grades", "grades", {}, GetGrades(refs["grades"], resp))
    /\ ncalls' = ncalls + 1
    /\ UNCHANGED <<base_url, auth, libVars>>

NextRef ==
    \/ \E r \in Refs : Construct(r)
    \/ ConstructResolved
    \/ CallResolve
    \/ CallGetSubmission
    \/ CallGetGrades

----------------------------------------------------------------------------
(* Url, and the Querypath trait of src/src/lib.rs.  A string is the         *)
(* sequence of its pieces; scheme and host are spelled out letter by        *)
(* letter, since authenticate compares them as text.                        *)

Url(scheme, host, path) == [scheme |-> scheme, host |-> host, path |-> path, query |-> {}]

AsStr(url) ==
    url.scheme \o <<":", "/", "/">> \o url.host \o url.path
        \o (IF url.query = NoneOpt THEN <<>> ELSE <<"?">> \o Unwrap(url.query))

HostStr(url) == url.host

StartsWith(s, prefix) ==
    /\ Len(prefix) <= Len(s)
    /\ \A i \in 1..Len(prefix) : s[i] = prefix[i]

(* Url::set_path: the path of an http(s) address always begins with "/" *)
SetPath(url, path) ==
    [url EXCEPT !.path = IF path # <<>> /\ path[1] = "/" THEN path ELSE <<"/">> \o path]

(* The positions of "?" in a querypath *)
Marks(querypath) == {i \in 1..Len(querypath) : querypath[i] = "?"}

Min(S) == CHOOSE x \in S : \A y \in S : x <= y

(* querypath.split('?'): the first piece is the path, the second the query *)
SetQuerypath(url, querypath) ==
    LET m == Marks(querypath)
        first == IF m = {} THEN Len(querypath) + 1 ELSE Min(m)
        rest == {i \in m : i > first}
        second == IF rest = {} THEN Len(querypath) + 1 ELSE Min(rest)
    IN  [SetPath(url, SubSeq(querypath, 1, first - 1)) EXCEPT
            !.query = IF m = {} THEN NoneOpt
                      ELSE Some(SubSeq(querypath, first + 1, second - 1))]

Https == <<"h", "t", "t", "p", "s">>

IliasHost == <<"i", "l", "i", "a", "s">>

IdpHost == <<"i", "d", "p">>

(* A host that spells the beginning of the scheme, as in http://http/ *)
OddHost == <<"h", "t", "t", "p">>

BaseUrls == {Url(Https, IliasHost, <<"/">>), Url(Https, OddHost, <<"/">>)}

(* Where the provider-selection POST may land after its redirects *)
LandingUrls(base) ==
    {Url(Https, HostStr(base), <<"/", "ilias.php">>), Url(Https, IdpHost, <<"/", "idp">>)}

----------------------------------------------------------------------------
(* The pages of the handshake, by the elements authenticate selects *)

CsrfTokens == {"t1", "t2"}

SamlTokens == {"s1"}

Actions == {<<"/a1">>, <<"/a2", "?", "x=1">>}

(* An input element: absent, or present with or without a value attribute *)
Inputs(values) ==
    {NoneOpt, Some([value |-> NoneOpt])} \cup {Some([value |-> Some(v)]) : v \in values}

(* A form: its method and action attributes.  The forms another method    *)
(* than post stands for are never selected, so one of them is enough.       *)
Forms ==
    [method : {"post"}, action : {NoneOpt} \cup {Some(a) : a \in Actions}]
        \cup [method : {"get"}, action : {Some(<<"/a1">>)}]

FormLists == UNION {[1..n -> Forms] : n \in 0..MaxForms}

Pages == [csrf : Inputs(CsrfTokens), forms : FormLists, saml : Inputs(SamlTokens)]

(* page.select(form[method="post"]).next() *)
FirstPostForm(page) ==
    LET idx == {i \in DOMAIN page.forms : page.forms[i].method = "post"}
    IN  IF idx = {} THEN NoneOpt ELSE Some(page.forms[Min(idx)])

Statuses == {200, 299, 300, 500}

(* StatusCode::is_success *)
IsSuccessLax(status) == status < 400

IsSuccess(status) == 200 <= status /\ status < 300

(* is_ilias: the landing address, as text, begins with the base host *)
IsIlias(landing, base) == StartsWith(AsStr(landing), HostStr(base))

----------------------------------------------------------------------------
(* The requests of the handshake *)

Request(kind, url, form) == [kind |-> kind, url |-> url, form |-> form]

Field(form, key) == form[CHOOSE i \in DOMAIN form : form[i][1] = key][2]

HasField(form, key) == \E i \in DOMAIN form : form[i][1] = key

ShibPath == <<"shib_login.php">>

ShibParamsWithLogin ==
    << <<"sendLogin", "1">>,
       <<"idp_selection", "https://idp.scc.kit.edu/idp/shibboleth">>,
       <<"il_target", "">>,
       <<"home_organization_selection", "Weiter">>,
       <<"j_username", "uxyz">>,
       <<"j_password", "secret">> >>

ShibParams ==
    << <<"sendLogin", "1">>,
       <<"idp_selection", "https://idp.scc.kit.edu/idp/shibboleth">>,
       <<"il_target", "">>,
       <<"home_organization_selection", "Weiter">> >>

ShibUrl(base) == SetPath(base, ShibPath)

CredentialFormNoToken(csrf, username, password) ==
    << <<"csrf_token", "">>, <<"j_username", username>>,
       <<"j_password", password>>, <<"_eventId_proceed", "">> >>

CredentialForm(csrf, username, password) ==
    << <<"csrf_token", csrf>>, <<"j_username", username>>,
       <<"j_password", password>>, <<"_eventId_proceed", "">> >>

ContinueFormBaseRelay(shib_url, saml) ==
    << <<"RelayState", AsStr(base_url)>>, <<"SAMLResponse", saml>> >>

ContinueForm(shib_url, saml) ==
    << <<"RelayState", shib_url>>, <<"SAMLResponse", saml>> >>

(* input[name="SAMLResponse"]: the element, then its value attribute *)
ExtractSamlDefaulting(page) ==
    IF page.saml = NoneOpt THEN Ok("")
    ELSE IF Unwrap(page.saml).value = NoneOpt
    THEN Err("Could not get SAML response value")
    ELSE Ok(Unwrap(Unwrap(page.saml).value))

ExtractSaml(page) ==
    IF page.saml = NoneOpt THEN Err("Did not find SAML Response input")
    ELSE IF Unwrap(page.saml).value = NoneOpt
    THEN Err("Could not get SAML response value")
    ELSE Ok(Unwrap(Unwrap(page.saml).value))

(* The login page's csrf value and form action: what the credential POST needs *)
LoginFormOf(page) ==
    IF Unwrap(page.csrf).value = NoneOpt THEN Err("Could not get csrf token")
    ELSE IF FirstPostForm(page) = NoneOpt THEN Err("Could not get login querypath element")
    ELSE IF Unwrap(FirstPostForm(page)).action = NoneOpt
    THEN Err("Could not get login querypath action")
    ELSE Ok([csrf |-> Unwrap(Unwrap(page.csrf).value),
             post_querypath |-> Unwrap(Unwrap(FirstPostForm(page)).action)])

----------------------------------------------------------------------------
(* IliasClient::authenticate, one action per exchange with the network *)

Usernames == {"uxyz"}

Passwords == {"secret"}

AuthInit ==
    [pc |-> "Start", username |-> "", password |-> "", requests |-> <<>>,
     shib_url |-> <<>>, landing |-> {}, shib_login_fragment |-> {}, shib_continue_fragment |-> {},
     status |-> {}, result |-> {}]

Finish(a, result) == [a EXCEPT !.pc = "Done", !.result = {result}]

(* The provider-selection POST and the already-logged-in check *)
AuthStart ==
    /\ auth.pc = "Start"
    /\ \E username \in Usernames, password \in Passwords :
       LET url == ShibUrl(base_url)
           a == [auth EXCEPT !.username = username, !.password = password,
                    !.shib_url = AsStr(url),
                    !.requests = <<Request("selection", AsStr(url), ShibParams)>>]
       IN  \/ auth' = Finish(a, Err("Could not send multipart form"))
           \/ \E landing \in LandingUrls(base_url) :
                 auth' = IF IsIlias(landing, base_url)
                         THEN Finish([a EXCEPT !.landing = {landing}], OkNone)
                         ELSE [a EXCEPT !.landing = {landing}, !.pc = "LoginPage"]
    /\ UNCHANGED <<refVars, base_url, libVars>>

(* What follows once the login page's text is there: with a csrf field the  *)
(* credential POST, without one the page is the continuation page           *)
SubmitCredentials(a, page, sent) ==
    IF page.csrf = NoneOpt
    THEN [a EXCEPT !.shib_continue_fragment = {page}, !.pc = "Extract"]
    ELSE LET f == LoginFormOf(page) IN
         IF f.status # "Ok" THEN Finish(a, f)
         ELSE LET url == SetQuerypath(Unwrap(a.landing), Unwrap(f.value).post_querypath)
                  b == [a EXCEPT !.requests = Append(@,
                           Request("credential", AsStr(url),
                                   CredentialForm(Unwrap(f.value).csrf, a.username, a.password)))]
              IN  IF sent THEN [b EXCEPT !.pc = "ContinuePage"]
                  ELSE Finish(b, Err("Could not post login form"))

AuthLoginPage ==
    /\ auth.pc = "LoginPage"
    /\ \/ auth' = Finish(auth, Err("Could not get text for login page"))
       \/ \E page \in Pages, sent \in BOOLEAN :
             auth' = SubmitCredentials([auth EXCEPT !.shib_login_fragment = {page}], page, sent)
    /\ UNCHANGED <<refVars, base_url, libVars>>

(* The text of the response to the credential POST *)
AuthContinuePage ==
    /\ auth.pc = "ContinuePage"
    /\ \/ auth' = Finish(auth, Err("Could not get continuation page during login"))
       \/ \E page \in Pages :
             auth' = [auth EXCEPT !.shib_continue_fragment = {page}, !.pc = "Extract"]
    /\ UNCHANGED <<refVars, base_url, libVars>>

(* The answer to the assertion POST: no response, or a status *)
Answers == {NoneOpt} \cup {Some(s) : s \in Statuses}

(* Assertion extraction, the assertion POST and the final status *)
SubmitAssertion(a, answer) ==
    LET page == Unwrap(a.shib_continue_fragment)
        saml == ExtractSaml(page)
    IN  IF saml.status # "Ok" THEN Finish(a, saml)
        ELSE IF FirstPostForm(page) = NoneOpt \/ Unwrap(FirstPostForm(page)).action = NoneOpt
        THEN [a EXCEPT !.pc = "Aborted", !.result = {Panic("called Option::unwrap() on a None value")}]
        ELSE LET b == [a EXCEPT !.requests = Append(@,
                          Request("assertion", Unwrap(Unwrap(FirstPostForm(page)).action),
                                  ContinueForm(a.shib_url, Unwrap(saml.value)))),
                          !.status = answer]
             IN  IF answer = NoneOpt
                 THEN Finish(b, Err("Could not get response for ilias home page"))
                 ELSE IF IsSuccess(Unwrap(answer)) THEN Finish(b, OkNone)
                 ELSE Finish(b, Err("Ilias login not successful!"))

AuthExtract ==
    /\ auth.pc = "Extract"
    /\ \E answer \in Answers : auth' = SubmitAssertion(auth, answer)
    /\ UNCHANGED <<refVars, base_url, libVars>>

NextAuth ==
    \/ AuthStart
    \/ AuthLoginPage
    \/ AuthContinuePage
    \/ AuthExtract

----------------------------------------------------------------------------
(* Text.  The strings of the addressing and parsing functions are strings;  *)
(* they are searched, cut and joined character by character.                *)

(* str::contains *)
Contains(s, m) ==
    \E i \in 1..(Len(s) - Len(m) + 1) : SubSeq(s, i, i + Len(m) - 1) = m

(* str::starts_with on a string *)
HasPrefix(s, p) == Len(p) <= Len(s) /\ SubSeq(s, 1, Len(p)) = p

HasSuffix(s, p) == Len(p) <= Len(s) /\ SubSeq(s, Len(s) - Len(p) + 1, Len(s)) = p

(* the class \d of the regex crate, on the text the platform sends *)
IsDigit(c) == c \in {"0", "1", "2", "3", "4", "5", "6", "7", "8", "9"}

(* \d+ at position i of s: the longest run of digits that starts there *)
DigitRun(s, i) ==
    LET ends == {j \in i..Len(s) : \A k \in i..j : IsDigit(SubSeq(s, k, k))}
    IN  IF ends = {} THEN "" ELSE SubSeq(s, i, CHOOSE j \in ends : \A k \in ends : k <= j)

(* The strings of exactly n characters over an alphabet *)
RECURSIVE Strings(_, _)
Strings(alphabet, n) ==
    IF n = 0 THEN {""} ELSE {c \o s : c \in alphabet, s \in Strings(alphabet, n - 1)}

StringsUpTo(alphabet, n) == UNION {Strings(alphabet, k) : k \in 0..n}

----------------------------------------------------------------------------
(* Addressing: IliasElement::type_identifier and querypath_from_id, and the *)
(* id pattern FolderElement::parse applies to the querypath of an entry     *)

MaxIdLen == 3

ElementTypes == {"Folder", "Exercise", "Assignment", "GradePage"}

(* numeric ids *)
Ids == StringsUpTo({"1", "2", "3"}, MaxIdLen) \ {""}

FolderTypeIdentifier == Some("fold")

ExerciseTypeIdentifier == Some("exc")

AssignmentTypeIdentifierAbsent == NoneOpt

AssignmentTypeIdentifier == Some("ass")

GradePageTypeIdentifier == NoneOpt

TypeIdentifier(t) ==
    CASE t = "Folder" -> FolderTypeIdentifier
      [] t = "Exercise" -> ExerciseTypeIdentifier
      [] t = "Assignment" -> AssignmentTypeIdentifier
      [] OTHER -> GradePageTypeIdentifier

FolderQuerypathFromIdTarget(id) ==
    Some("goto.php?target=" \o Unwrap(FolderTypeIdentifier) \o "_" \o id)

FolderQuerypathFromId(id) ==
    Some("goto.php/" \o Unwrap(FolderTypeIdentifier) \o "/" \o id)

ExerciseQuerypathFromId(id) ==
    Some("goto.php?target=" \o Unwrap(ExerciseTypeIdentifier) \o "_" \o id
            \o "&client_id=produktiv")

AssignmentQuerypathFromId(id) == NoneOpt

GradePageQuerypathFromId(id) == NoneOpt

QuerypathFromId(t, id) ==
    CASE t = "Folder" -> FolderQuerypathFromId(id)
      [] t = "Exercise" -> ExerciseQuerypathFromId(id)
      [] t = "Assignment" -> AssignmentQuerypathFromId(id)
      [] OTHER -> GradePageQuerypathFromId(id)

(* (ref_id=|target=file_|exc/)(?<id>\d+) *)
IdPrefixes == <<"ref_id=", "target=file_", "exc/">>

(* The positions where the pattern matches: one of the prefixes, then a digit *)
IdMatchEnds(querypath, i) ==
    {i + Len(IdPrefixes[k]) : k \in {k \in DOMAIN IdPrefixes :
        /\ HasPrefix(SubSeq(querypath, i, Len(querypath)), IdPrefixes[k])
        /\ DigitRun(querypath, i + Len(IdPrefixes[k])) # ""}}

(* captures(&querypath).and_then(|capture| capture.name("id")): the          *)
(* leftmost match; the three prefixes begin with different letters, so at   *)
(* most one of them matches at a position                                   *)
ExtractId(querypath) ==
    LET starts == {i \in 1..Len(querypath) : IdMatchEnds(querypath, i) # {}}
    IN  IF starts = {} THEN NoneOpt
        ELSE Some(DigitRun(querypath, Unwrap(IdMatchEnds(querypath, Min(starts)))))

AddrInit ==
    [pc |-> "Idle", type |-> "", id |-> "", identifier |-> {}, querypath |-> {},
     extracted |-> {}]

(* T::type_identifier() *)
CallTypeIdentifier ==
    /\ addr.pc = "Idle"
    /\ \E t \in ElementTypes :
          addr' = [AddrInit EXCEPT !.pc = "Identified", !.type = t,
                                   !.identifier = TypeIdentifier(t)]
    /\ UNCHANGED <<coreVars, post, folder, grade, opVars>>

(* T::querypath_from_id(id) *)
CallQuerypathFromId ==
    /\ addr.pc = "Identified"
    /\ \E id \in Ids :
          addr' = [addr EXCEPT !.pc = "Addressed", !.id = id,
                               !.querypath = QuerypathFromId(addr.type, id)]
    /\ UNCHANGED <<coreVars, post, folder, grade, opVars>>

(* The id pattern of the listing entries, applied to the address built *)
CallExtractId ==
    /\ addr.pc = "Addressed"
    /\ addr.querypath # NoneOpt
    /\ addr' = [addr EXCEPT !.pc = "Extracted",
                            !.extracted = ExtractId(Unwrap(addr.querypath))]
    /\ UNCHANGED <<coreVars, post, folder, grade, opVars>>

NextAddr ==
    \/ CallTypeIdentifier
    \/ CallQuerypathFromId
    \/ CallExtractId

----------------------------------------------------------------------------
(* IliasClient::post_querypath_form *)

MaxPosts == 2

PostQuerypaths == {<<"ilias.php", "?", "cmd=confirmedDelete">>, <<"goto.php">>}

PostForms1 == {<< <<"form/input_0", "12">> >>}

(* The address the response came from, after the redirects the HTTP client  *)
(* followed on its own                                                      *)
FinalUrls ==
    {"https://ilias/ilias.php?cmd=confirmedDelete",
     "https://ilias/login.php",
     "https://ilias/error.php"}

PostStatuses == {200, 399, 400, 599}

(* What send() gives: no response, or a response with its address and status *)
PostResponses == {NoneOpt} \cup {Some(r) : r \in [url : FinalUrls, status : PostStatuses]}

(* StatusCode::is_client_error() || is_server_error(), as error_for_status *)
IsErrorStatus(status) == 400 <= status /\ status < 600

PostQuerypathFormAnyStatus(base, querypath, form, response) ==
    LET request == Request("post_form", AsStr(SetQuerypath(base, querypath)), form) IN
    IF response = NoneOpt
    THEN [sent |-> <<request>>, result |-> Err("Could not post to querypath")]
    ELSE IF Contains(Unwrap(response).url, "error")
    THEN [sent |-> <<request>>, result |-> Err("Ilias error page")]
    ELSE [sent |-> <<request>>, result |-> Ok(Unwrap(response))]

PostQuerypathForm(base, querypath, form, response) ==
    LET request == Request("post_form", AsStr(SetQuerypath(base, querypath)), form) IN
    IF response = NoneOpt
    THEN [sent |-> <<request>>, result |-> Err("Could not post to querypath")]
    ELSE IF Contains(Unwrap(response).url, "error")
    THEN [sent |-> <<request>>, result |-> Err("Ilias error page")]
    ELSE IF IsErrorStatus(Unwrap(response).status)
    THEN [sent |-> <<request>>, result |-> Err("Response had an error status code")]
    ELSE [sent |-> <<request>>, result |-> Ok(Unwrap(response))]

PostInit == [calls |-> 0, sent |-> <<>>, response |-> {}, result |-> OkNone]

CallPostQuerypathForm ==
    /\ post.calls < MaxPosts
    /\ \E querypath \in PostQuerypaths, form \in PostForms1, response \in PostResponses :
          LET step == PostQuerypathForm(base_url, querypath, form, response) IN
          post' = [calls |-> post.calls + 1, sent |-> post.sent \o step.sent,
                   response |-> response, result |-> step.result]
    /\ UNCHANGED <<coreVars, addr, folder, grade, opVars>>

NextPost == CallPostQuerypathForm

----------------------------------------------------------------------------
(* parse_date (src/src/lib.rs) *)

IsSpace(c) == c \in {" ", "\t", "\n"}

(* str::trim *)
RECURSIVE Trim(_)
Trim(s) ==
    IF s = "" THEN s
    ELSE IF IsSpace(SubSeq(s, 1, 1)) THEN Trim(SubSeq(s, 2, Len(s)))
    ELSE IF IsSpace(SubSeq(s, Len(s), Len(s))) THEN Trim(SubSeq(s, 1, Len(s) - 1))
    ELSE s

(* The positions where m occurs in s *)
Occurrences(s, m) ==
    {i \in 1..(Len(s) - Len(m) + 1) : SubSeq(s, i, i + Len(m) - 1) = m}

(* str::split_once *)
SplitOnce(s, m) ==
    IF Occurrences(s, m) = {} THEN NoneOpt
    ELSE LET i == Min(Occurrences(s, m)) IN
         Some(<<SubSeq(s, 1, i - 1), SubSeq(s, i + Len(m), Len(s))>>)

IsDigits(s) == s # "" /\ \A i \in 1..Len(s) : IsDigit(SubSeq(s, i, i))

DigitValue(c) ==
    CASE c = "0" -> 0 [] c = "1" -> 1 [] c = "2" -> 2 [] c = "3" -> 3 [] c = "4" -> 4
      [] c = "5" -> 5 [] c = "6" -> 6 [] c = "7" -> 7 [] c = "8" -> 8 [] OTHER -> 9

(* str::parse::<u32>() of a string of digits *)
RECURSIVE ToInt(_)
ToInt(s) ==
    IF s = "" THEN 0
    ELSE 10 * ToInt(SubSeq(s, 1, Len(s) - 1)) + DigitValue(SubSeq(s, Len(s), Len(s)))

(* NaiveTime::parse_from_str(time, "%H:%M"), for the spelling HH:MM *)
ParseTime(time) ==
    IF /\ Len(time) = 5
       /\ IsDigits(SubSeq(time, 1, 2))
       /\ SubSeq(time, 3, 3) = ":"
       /\ IsDigits(SubSeq(time, 4, 5))
       /\ ToInt(SubSeq(time, 1, 2)) < 24
       /\ ToInt(SubSeq(time, 4, 5)) < 60
    THEN Some([hour |-> ToInt(SubSeq(time, 1, 2)), minute |-> ToInt(SubSeq(time, 4, 5))])
    ELSE NoneOpt

Months ==
    << {"Jan"}, {"Feb"}, {"Mär", "Mar"}, {"Apr"}, {"Mai", "May"}, {"Jun"}, {"Jul"},
       {"Aug"}, {"Sep"}, {"Okt", "Oct"}, {"Nov"}, {"Dez", "Dec"} >>

IsLeap(year) == year % 4 = 0 /\ (year % 100 # 0 \/ year % 400 = 0)

DaysIn(year, month) ==
    IF month = 2 THEN (IF IsLeap(year) THEN 29 ELSE 28)
    ELSE IF month \in {4, 6, 9, 11} THEN 30 ELSE 31

(* \w+ without a blank or a dot in it, as far as the texts of the model go *)
IsWord(s) == s # "" /\ ~Contains(s, " ") /\ ~Contains(s, ".") /\ ~Contains(s, ",")

(* The index of the month named, if any *)
MonthIndex(month) == {m \in DOMAIN Months : month \in Months[m]}

(* NaiveDate::from_ymd_opt, after year and day went through parse::<u32>  *)
FromYmd(year, index, day) ==
    IF index = {} \/ ~IsDigits(year) THEN NoneOpt
    ELSE IF day < 1 \/ day > DaysIn(ToInt(year), Unwrap(index)) THEN NoneOpt
    ELSE Some([relative |-> FALSE, shift |-> 0, year |-> ToInt(year),
               month |-> Unwrap(index), day |-> day])

(* The captures day, month and year of the date pattern *)
DayMonthYear(day, month, year) ==
    IF ~IsDigits(day) \/ ~IsWord(month) \/ ~IsWord(year) THEN NoneOpt
    ELSE FromYmd(year, MonthIndex(month), ToInt(day))

(* The rest of the date pattern after "<day>. ": month, blank, year *)
MonthYear(day, rest) ==
    IF rest = NoneOpt THEN NoneOpt
    ELSE DayMonthYear(day, Unwrap(rest)[1], Unwrap(rest)[2])

(* ^(?<day>\d+)\. (?<month>\w+) (?<year>\w+)$, then day, month and year *)
ParseDay(date) ==
    LET a == SplitOnce(date, ". ")
    IN  IF a = NoneOpt THEN NoneOpt
        ELSE MonthYear(Unwrap(a)[1], SplitOnce(Unwrap(a)[2], " "))

(* The day: yesterday, today, tomorrow (relative to now), or a calendar day *)
ParseDayWord(date) ==
    IF date \in {"Gestern", "Yesterday"}
    THEN Some([relative |-> TRUE, shift |-> -1, year |-> 0, month |-> 0, day |-> 0])
    ELSE IF date \in {"Heute", "Today"}
    THEN Some([relative |-> TRUE, shift |-> 0, year |-> 0, month |-> 0, day |-> 0])
    ELSE IF date \in {"Morgen", "Tomorrow"}
    THEN Some([relative |-> TRUE, shift |-> 1, year |-> 0, month |-> 0, day |-> 0])
    ELSE ParseDay(date)

(* The date and time joined: either part missing fails the whole *)
DayAndTime(day, time) ==
    IF time = NoneOpt \/ day = NoneOpt THEN NoneOpt
    ELSE Some([day |-> Unwrap(day), time |-> Unwrap(time)])

(* the text before the comma is the day, the text after it the time *)
DateThenTime(split) ==
    IF split = NoneOpt THEN NoneOpt
    ELSE DayAndTime(ParseDayWord(Trim(Unwrap(split)[1])), ParseTime(Trim(Unwrap(split)[2])))

ParseDate(date_string) == DateThenTime(SplitOnce(date_string, ","))

----------------------------------------------------------------------------
(* Folder::parse and FolderElement::parse (src/src/folder.rs) *)

MaxEntries == 2

PlatformOrigin == "https://ilias"

(* The href of a listing entry: an absolute address, or one Url::parse      *)
(* rejects                                                                  *)
FileLinks ==
    {"https://ilias/goto.php?target=file_12_download",
     "https://ilias/ilias.php?baseClass=ilrepositorygui&cmd=sendfile&ref_id=13"}

OtherLinks ==
    {"https://ilias/ilias.php?baseClass=ilObjPluginDispatchGUI&cmd=forward&ref_id=21&forwardCmd=showContent",
     "https://ilias/ilias.php?baseClass=ilrepositorygui&cmd=view&ref_id=31",
     "https://ilias/goto.php/exc/41",
     "https://ilias/goto.php/exc/42?baseClass=ilObjPluginDispatchGUI&cmd=forward&forwardCmd=showContent",
     "https://ilias/goto.php/exc/43?baseClass=ilrepositorygui&cmd=view",
     "https://ilias/goto.php/exc/44?baseClass=ilrepositorygui&cmd=view&ref_id=32",
     "https://ilias/ilias.php?baseClass=ilrepositorygui&cmd=infoScreen&ref_id=51",
     "https://ilias/goto.php/cat/61",
     "goto.php/exc/45"}

(* The texts of the .il_ItemProperty elements of an entry *)
PropertyLists ==
    {<<>>, <<"pdf">>, <<"pdf", "1,2 MB", "Heute, 12:00">>, <<"", "12. Jan 2024, 09:30">>}

EntryNames == {"Blatt"}

(* What get_deletion_querypath finds for the entry, if anything *)
DeletionQuerypaths == {NoneOpt, Some("ilias.php?cmd=delete")}

Entry(name, href, described, properties, deletion) ==
    [title |-> Some([text |-> name, href |-> href]), described |-> described,
     properties |-> properties, deletion |-> deletion]

(* The .ilObjListRow elements: well-formed entries, and entries without a   *)
(* title link, without its href, or without a description                   *)
Entries ==
    {Entry(n, Some(l), TRUE, p, d) :
        n \in EntryNames, l \in FileLinks, p \in PropertyLists, d \in {NoneOpt}}
    \cup {Entry(n, Some(l), TRUE, <<>>, d) :
            n \in EntryNames, l \in OtherLinks, d \in DeletionQuerypaths}
    \cup {Entry(n, NoneOpt, TRUE, <<>>, NoneOpt) : n \in EntryNames}
    \cup {Entry(n, Some("https://ilias/goto.php/exc/41"), FALSE, <<>>, NoneOpt) :
            n \in EntryNames}
    \cup {[title |-> NoneOpt, described |-> TRUE, properties |-> <<>>, deletion |-> NoneOpt]}

EntryLists == UNION {[1..n -> Entries] : n \in 0..MaxEntries}

(* Url::parse(link), then Querypath::get_querypath: path, "?", query or ""  *)
UrlParse(link) ==
    IF HasPrefix(link, PlatformOrigin \o "/")
    THEN Some(SubSeq(link, Len(PlatformOrigin) + 1, Len(link)))
    ELSE NoneOpt

GetQuerypath(pathAndQuery) ==
    IF Contains(pathAndQuery, "?") THEN pathAndQuery ELSE pathAndQuery \o "?"

(* ref_id=(?<id>\d+) *)
ExtractRefId(querypath) ==
    LET starts == {i \in Occurrences(querypath, "ref_id=") :
                      DigitRun(querypath, i + Len("ref_id=")) # ""}
    IN  IF starts = {} THEN NoneOpt
        ELSE Some(DigitRun(querypath, Min(starts) + Len("ref_id=")))

FolderElement(kind, name, id, querypath, deletion, date) ==
    [kind |-> kind, name |-> name, id |-> id, querypath |-> querypath,
     deletion_querypath |-> deletion, date |-> date]

(* The file branch: the first property is the extension, the first later   *)
(* property that parse_date accepts is the date                             *)
FileNamed(name, extension) ==
    IF extension = "" THEN name ELSE name \o "." \o extension

(* dates: what parse_date gives for each property after the first *)
FileDated(querypath, name, id, deletion, dates) ==
    IF \A i \in DOMAIN dates : dates[i] = NoneOpt THEN Err("No date properties left")
    ELSE Ok(FolderElement("File", name, id, querypath, deletion,
                          dates[Min({i \in DOMAIN dates : dates[i] # NoneOpt})]))

FileFromProperties(querypath, name, id, deletion, properties) ==
    IF properties = <<>> THEN Panic("Could not find file extension")
    ELSE FileDated(querypath, FileNamed(name, Trim(properties[1])), id, deletion,
                   [i \in 1..(Len(properties) - 1) |-> ParseDate(properties[i + 1])])

ExtractFromQuerypathExerciseFirst(querypath, name, id, deletion, properties) ==
    IF Contains(querypath, "/exc/")
    THEN Ok(FolderElement("Exercise", name, id, querypath, deletion, NoneOpt))
    ELSE IF \/ Contains(querypath, "target=file_")
            \/ (/\ Contains(querypath, "baseClass=ilrepositorygui")
                /\ Contains(querypath, "cmd=sendfile"))
    THEN FileFromProperties(querypath, name, id, deletion, properties)
    ELSE IF /\ Contains(querypath, "baseClass=ilObjPluginDispatchGUI")
            /\ Contains(querypath, "cmd=forward")
            /\ Contains(querypath, "forwardCmd=showContent")
    THEN Ok(FolderElement("Opencast", name, id, querypath, deletion, NoneOpt))
    ELSE IF Contains(querypath, "baseClass=ilrepositorygui") /\ Contains(querypath, "cmd=view")
    THEN IF ExtractRefId(querypath) = NoneOpt THEN Err("Could not extract id")
         ELSE Ok(FolderElement("Viewable", name, Unwrap(ExtractRefId(querypath)),
                               querypath, deletion, NoneOpt))
    ELSE Err("Could not get folder element")

ExtractFromQuerypath(querypath, name, id, deletion, properties) ==
    IF \/ Contains(querypath, "target=file_")
       \/ (/\ Contains(querypath, "baseClass=ilrepositorygui")
           /\ Contains(querypath, "cmd=sendfile"))
    THEN FileFromProperties(querypath, name, id, deletion, properties)
    ELSE IF /\ Contains(querypath, "baseClass=ilObjPluginDispatchGUI")
            /\ Contains(querypath, "cmd=forward")
            /\ Contains(querypath, "forwardCmd=showContent")
    THEN Ok(FolderElement("Opencast", name, id, querypath, deletion, NoneOpt))
    ELSE IF Contains(querypath, "baseClass=ilrepositorygui") /\ Contains(querypath, "cmd=view")
    THEN IF ExtractRefId(querypath) = NoneOpt THEN Err("Could not extract id")
         ELSE Ok(FolderElement("Viewable", name, Unwrap(ExtractRefId(querypath)),
                               querypath, deletion, NoneOpt))
    ELSE IF Contains(querypath, "/exc/")
    THEN Ok(FolderElement("Exercise", name, id, querypath, deletion, NoneOpt))
    ELSE Err("Could not get folder element")

(* get_deletion_querypath(id, folder_script, client): the platform's answer *)
GetDeletionQuerypath(id, entry) == entry.deletion

(* FolderElement::parse: the locals querypath and id, and the result *)
FolderElementParse(entry) ==
    IF entry.title = NoneOpt
    THEN [querypath |-> {}, id |-> {}, result |-> Err("Did not find name")]
    ELSE IF ~entry.described
    THEN [querypath |-> {}, id |-> {}, result |-> Err("Could not get description")]
    ELSE IF Unwrap(entry.title).href = NoneOpt
    THEN [querypath |-> {}, id |-> {}, result |-> Err("Could not get link")]
    ELSE IF UrlParse(Unwrap(Unwrap(entry.title).href)) = NoneOpt
    THEN [querypath |-> {}, id |-> {}, result |-> Panic("Could not parse link")]
    ELSE LET querypath == GetQuerypath(Unwrap(UrlParse(Unwrap(Unwrap(entry.title).href))))
             id == ExtractId(querypath)
         IN  IF id = NoneOpt
             THEN [querypath |-> {querypath}, id |-> {},
                   result |-> Err("Could not get id captures from querypath")]
             ELSE [querypath |-> {querypath}, id |-> id,
                   result |-> ExtractFromQuerypath(querypath, Unwrap(entry.title).text,
                                  Unwrap(id), GetDeletionQuerypath(Unwrap(id), entry),
                                  entry.properties)]

(* The folder page: its header elements and its listing *)
FolderHeaders ==
    LET full == [name |-> TRUE, description |-> TRUE, id |-> Some([href |-> Some("goto.php/fold/123")]),
                 last_script |-> TRUE, upload |-> Some("ilias.php?cmd=create&new_type=file")]
    IN  {full,
         [full EXCEPT !.name = FALSE],
         [full EXCEPT !.description = FALSE],
         [full EXCEPT !.id = NoneOpt],
         [full EXCEPT !.id = Some([href |-> NoneOpt])],
         [full EXCEPT !.last_script = FALSE],
         [full EXCEPT !.upload = NoneOpt]}

(* FolderElement::parse as a table over the entries of the model *)
ParsedEntry == [entry \in Entries |-> FolderElementParse(entry)]

(* The loop over the listing stops at the first entry that does not parse:  *)
(* of the parses of all entries, the ones the loop gets to                  *)
UntilFailure(all) ==
    LET bad == {i \in DOMAIN all : all[i].result.status # "Ok"}
    IN  SubSeq(all, 1, IF bad = {} THEN Len(all) ELSE Min(bad))

FolderIterations(entries) ==
    UntilFailure([i \in DOMAIN entries |-> ParsedEntry[entries[i]]])

(* The header selections of Folder::parse: the first one that fails, if any *)
HeaderFailure(h) ==
    IF ~h.name THEN {"Could not find name"}
    ELSE IF ~h.description THEN {"Could not find description"}
    ELSE IF h.id = NoneOpt THEN {"Could not find link in breadcrumbs"}
    ELSE IF Unwrap(h.id).href = NoneOpt THEN {"Link missing href attribute"}
    ELSE IF ~h.last_script THEN {"Did not find last script"}
    ELSE {}

(* The pages: a header that is whole, with every listing; a header that    *)
(* lacks an element, which ends the parse before the listing is looked at,  *)
(* with the listings of at most one entry                                   *)
FolderDocs ==
    {doc \in [header : FolderHeaders, entries : EntryLists] :
        HeaderFailure(doc.header) = {} \/ Len(doc.entries) <= 1}

FolderOf(h, parsed) ==
    Ok([name |-> "Folder", id |-> Unwrap(Unwrap(h.id).href),
        elements |-> [i \in DOMAIN parsed |-> Unwrap(parsed[i].result.value)],
        upload_page_querypath |-> h.upload])

FolderSkipping(h, all) ==
    IF HeaderFailure(h) # {}
    THEN [iterations |-> <<>>, result |-> Err(Unwrap(HeaderFailure(h)))]
    ELSE [iterations |-> all,
          result |-> FolderOf(h, SelectSeq(all, LAMBDA it : it.result.status = "Ok"))]

FolderParseSkipping(doc) ==
    FolderSkipping(doc.header, [i \in DOMAIN doc.entries |-> ParsedEntry[doc.entries[i]]])

(* Folder::parse after the header: the listing, then the upload link *)
FolderListing(h, its) ==
    IF HeaderFailure(h) # {}
    THEN [iterations |-> <<>>, result |-> Err(Unwrap(HeaderFailure(h)))]
    ELSE IF its # <<>> /\ its[Len(its)].result.status = "Panic"
    THEN [iterations |-> its, result |-> its[Len(its)].result]
    ELSE IF its # <<>> /\ its[Len(its)].result.status = "Err"
    THEN [iterations |-> its, result |-> Err("Could not parse folder element")]
    ELSE [iterations |-> its, result |-> FolderOf(h, its)]

(* Folder::parse: the header, then the listing, then the upload link *)
FolderParse(doc) == FolderListing(doc.header, FolderIterations(doc.entries))

FolderInit == [pc |-> "Idle", doc |-> {}, iterations |-> <<>>, result |-> OkNone]

(* The page parsed, the iterations its listing loop made, and the result *)
FolderParsed(doc, parsed) ==
    [pc |-> "Parsed", doc |-> {doc}, iterations |-> parsed.iterations,
     result |-> parsed.result]

(* Folder::parse on a fetched folder page *)
CallFolderParse ==
    /\ folder.pc = "Idle"
    /\ \E doc \in FolderDocs : folder' = FolderParsed(doc, FolderParse(doc))
    /\ UNCHANGED <<coreVars, addr, post, grade, opVars>>

NextFolder == CallFolderParse

----------------------------------------------------------------------------
(* GradeSubmission::parse (src/src/exercise/grades/submission.rs) and the   *)
(* rows of GradePage::parse (src/src/exercise/grades.rs)                    *)

MaxMarkerLen == 4

MaxRows == 2

(* str::replace: every occurrence, from the left, without overlap *)
RECURSIVE Replace(_, _, _)
Replace(s, from, to) ==
    IF Len(s) < Len(from) THEN s
    ELSE IF HasPrefix(s, from)
    THEN to \o Replace(SubSeq(s, Len(from) + 1, Len(s)), from, to)
    ELSE SubSeq(s, 1, 1) \o Replace(SubSeq(s, 2, Len(s)), from, to)

(* The chain of replacements applied to every identifier *)
Transliterate(identifier) ==
    Replace(Replace(Replace(Replace(Replace(Replace(Replace(identifier,
        "Ä", "Ae"), "ä", "ae"), "Ü", "Ue"), "ü", "ue"), "Ö", "Oe"), "ö", "oe"), "ß", "ss")

(* The team branch: Ok(None) for an unassigned user, else the marker        *)
(* without its brackets                                                     *)
TeamIdentifierKeepingBrackets(team_id) ==
    IF ~Contains(team_id, "(") /\ ~Contains(team_id, ")") THEN OkNone
    ELSE Ok("Team " \o Trim(team_id))

TeamIdentifier(team_id) ==
    IF ~Contains(team_id, "(") /\ ~Contains(team_id, ")") THEN OkNone
    ELSE IF ~HasPrefix(Trim(team_id), "(") THEN Err("Unexpected team id (no prefix '(')")
    ELSE LET stripped == SubSeq(Trim(team_id), 2, Len(Trim(team_id))) IN
         IF ~HasSuffix(stripped, ")") THEN Err("Unexpected team id (no suffix ')')")
         ELSE Ok("Team " \o SubSeq(stripped, 1, Len(stripped) - 1))

(* The signed-in-user branch *)
UserIdentifier(signin_name, name) ==
    Replace(Trim(name), ", ", "_") \o "_" \o Trim(signin_name)

(* The first data-action that names the feedback files *)
FeedbackQuerypath(actions) ==
    LET found == {i \in DOMAIN actions :
                     /\ actions[i] # NoneOpt
                     /\ \/ Contains(Unwrap(actions[i]), "cmdClass=ilResourceCollectionGUI")
                        \/ Contains(Unwrap(actions[i]), "cmd=listFiles")}
    IN  IF found = {} THEN NoneOpt ELSE actions[Min(found)]

(* A row of table#exc_mem, by the elements GradeSubmission::parse selects *)
Row(team, signin, name, ilias_id, points, actions) ==
    [team |-> team, signin |-> signin, name |-> name, ilias_id |-> ilias_id,
     points |-> points, actions |-> actions]

(* The identifier of a row, as far as it has one (lines 65 to 99) *)
Transliterated(identifier) ==
    IF identifier.status = "Ok" /\ identifier.value # {}
    THEN Ok(Transliterate(Unwrap(identifier.value)))
    ELSE identifier

RowIdentifier(row) ==
    IF row.team # NoneOpt
    THEN Transliterated(TeamIdentifier(Unwrap(row.team)))
    ELSE IF /\ row.signin # NoneOpt
            /\ Contains(Unwrap(row.signin), "@")
            /\ row.name # NoneOpt
    THEN Ok(Transliterate(UserIdentifier(Unwrap(row.signin), Unwrap(row.name))))
    ELSE Err("This submission style is not yet supported")

(* The rest of GradeSubmission::parse, once the identifier is there: the  *)
(* ilias id, the points, the feedback querypath (lines 101 to 136)          *)
SubmissionOf(row, identifier, feedback) ==
    IF row.ilias_id = NoneOpt THEN Panic("Could not find ilais id")
    ELSE IF row.points = NoneOpt THEN Err("Did not find points")
    ELSE IF Unwrap(row.points).value = NoneOpt THEN Err("Could not parse points")
    ELSE IF feedback = NoneOpt THEN Err("Did not find file feedback querypath")
    ELSE IF Unwrap(row.ilias_id).value = NoneOpt THEN Panic("Attribute value not found")
    ELSE Ok([identifier |-> identifier,
             file_feedback_querypath |-> Unwrap(feedback),
             ilias_id |-> Unwrap(Unwrap(row.ilias_id).value),
             points |-> Unwrap(Unwrap(row.points).value)])

SubmissionSkipping(row, identifier) ==
    IF identifier.status # "Ok" \/ identifier.value = {} THEN OkNone
    ELSE SubmissionOf(row, Unwrap(identifier.value), FeedbackQuerypath(row.actions))

GradeSubmissionParseSkipping(row) == SubmissionSkipping(row, RowIdentifier(row))

(* The identifier decides: an error or Ok(None) ends the parse of the row *)
SubmissionIdentified(row, identifier) ==
    IF identifier.status # "Ok" \/ identifier.value = {} THEN identifier
    ELSE SubmissionOf(row, Unwrap(identifier.value), FeedbackQuerypath(row.actions))

(* GradeSubmission::parse: Ok(Some(submission)), Ok(None), an error, a panic *)
GradeSubmissionParse(row) == SubmissionIdentified(row, RowIdentifier(row))

(* The texts of the team marker element: numbers, brackets, blanks *)
TeamMarkers == StringsUpTo({"(", ")", "4", "2", " "}, MaxMarkerLen)

DisplayNames == {"Mustermann, Max", " Müller, Jörg ", "Weiß, Änne", "Öztürk", "Über, Ä, Ü"}

SigninNames == {"uxyz@student.kit.edu", " uabc@kit.edu ", "uxyz", "müller@kit.edu"}

FeedbackActions ==
    {<<>>,
     <<Some("ilias.php?cmd=listFiles&member_id=1")>>,
     <<NoneOpt, Some("ilias.php?cmd=mail"), Some("ilias.php?cmdClass=ilResourceCollectionGUI")>>}

Attributed(values) == {NoneOpt, Some([value |-> NoneOpt])} \cup {Some([value |-> Some(v)]) : v \in values}

(* A row whose other cells are all there *)
FullRow(team, signin, name) ==
    Row(team, signin, name, Some([value |-> Some("1001")]), Some([value |-> Some("10")]),
        <<Some("ilias.php?cmd=listFiles&member_id=1")>>)

(* The rows given to GradeSubmission::parse: every marker, every pair of    *)
(* names, and rows that miss a cell                                         *)
Rows ==
    {FullRow(Some(t), s, n) : t \in TeamMarkers, s \in {NoneOpt}, n \in {NoneOpt}}
    \cup {FullRow(Some(t), Some("uxyz@student.kit.edu"), Some("Mustermann, Max")) :
            t \in {"", "(42)"}}
    \cup {FullRow(NoneOpt, s, n) :
            s \in {NoneOpt} \cup {Some(x) : x \in SigninNames},
            n \in {NoneOpt} \cup {Some(x) : x \in DisplayNames}}
    \cup {Row(Some("(42)"), NoneOpt, NoneOpt, i, p, a) :
            i \in Attributed({"1001"}), p \in Attributed({"10"}), a \in FeedbackActions}

(* The rows of a grade page *)
PageRows ==
    {FullRow(Some("(42)"), NoneOpt, NoneOpt),
     FullRow(Some("(7"), NoneOpt, NoneOpt),
     FullRow(Some(""), NoneOpt, NoneOpt),
     FullRow(Some(" "), Some("uabc@kit.edu"), Some("Weiß, Änne")),
     FullRow(NoneOpt, Some("uxyz@student.kit.edu"), Some("Mustermann, Max")),
     FullRow(NoneOpt, Some("uxyz"), Some("Mustermann, Max")),
     FullRow(NoneOpt, NoneOpt, NoneOpt),
     Row(Some("(42)"), NoneOpt, NoneOpt, NoneOpt, Some([value |-> Some("10")]), <<>>),
     Row(Some("(42)"), NoneOpt, NoneOpt, Some([value |-> Some("1001")]), NoneOpt, <<>>)}

RowLists == UNION {[1..n -> PageRows] : n \in 0..MaxRows}

(* The grade page: the selected option of select#ass_id, form#ilToolbar and *)
(* the rows of table#exc_mem                                                *)
GradePageHeaders ==
    LET full == [selected |-> Some([value |-> Some("7"), text |-> "Blatt 1"]),
                 toolbar |-> Some([action |-> Some("ilias.php?cmd=members")])]
    IN  {full,
         [full EXCEPT !.selected = NoneOpt],
         [full EXCEPT !.selected = Some([value |-> NoneOpt, text |-> "Blatt 1"])],
         [full EXCEPT !.toolbar = NoneOpt],
         [full EXCEPT !.toolbar = Some([action |-> NoneOpt])]}

GradePageDocs == [header : GradePageHeaders, rows : RowLists]

(* GradeSubmission::parse as a table over the rows of the model *)
ParsedRow == [row \in PageRows |-> GradeSubmissionParse(row)]

(* The loop over the rows stops at the first row that does not parse: of    *)
(* the parses of all rows, the ones the loop gets to                        *)
UntilRowFailure(all) ==
    LET bad == {i \in DOMAIN all : all[i].status # "Ok"}
    IN  SubSeq(all, 1, IF bad = {} THEN Len(all) ELSE Min(bad))

GradePageIterations(rows) == UntilRowFailure([i \in DOMAIN rows |-> ParsedRow[rows[i]]])

(* The header selections of GradePage::parse: the first one that fails *)
GradeHeaderFailure(h) ==
    IF h.selected = NoneOpt THEN {"Did not find selected assignment in dropdown"}
    ELSE IF Unwrap(h.selected).value = NoneOpt THEN {"Dropdown entry did not have a value"}
    ELSE IF h.toolbar = NoneOpt THEN {"Did not find toolbar form"}
    ELSE IF Unwrap(h.toolbar).action = NoneOpt THEN {"Toolbar form had no action"}
    ELSE {}

GradePageOf(h, kept) ==
    Ok([name |-> Unwrap(h.selected).text,
        ass_id |-> Unwrap(Unwrap(h.selected).value),
        toolbar_form_querypath |-> Unwrap(Unwrap(h.toolbar).action),
        submissions |-> [i \in DOMAIN kept |-> Unwrap(kept[i].value)]])

(* GradePage::parse after the header: one submission per row that          *)
(* GradeSubmission::parse returns one for                                   *)
GradePageRows(h, its) ==
    IF GradeHeaderFailure(h) # {}
    THEN [iterations |-> <<>>, result |-> Err(Unwrap(GradeHeaderFailure(h)))]
    ELSE IF its # <<>> /\ its[Len(its)].status = "Panic"
    THEN [iterations |-> its, result |-> its[Len(its)]]
    ELSE IF its # <<>> /\ its[Len(its)].status = "Err"
    THEN [iterations |-> its, result |-> Err("Could not parse submission")]
    ELSE [iterations |-> its,
          result |-> GradePageOf(h, SelectSeq(its, LAMBDA r : r.value # {}))]

(* GradePage::parse on the document: the header, then the rows *)
GradePageParseDocument(doc) == GradePageRows(doc.header, GradePageIterations(doc.rows))

GradeInit ==
    [pc |-> "Idle", rows |-> <<>>, identifier |-> OkNone, iterations |-> <<>>,
     result |-> OkNone]

(* The row parsed, its identifier after line 99, and the result *)
GradeRowParsed(row, identifier, parsed) ==
    [pc |-> "Row", rows |-> <<row>>, identifier |-> identifier,
     iterations |-> <<parsed>>, result |-> parsed]

(* The page parsed, the iterations its loop over the rows made, the result *)
GradePageParsed(doc, parsed) ==
    [pc |-> "Page", rows |-> doc.rows, identifier |-> OkNone,
     iterations |-> parsed.iterations, result |-> parsed.result]

(* GradeSubmission::parse on one row; identifier is its local after line 99 *)
CallGradeSubmissionParse ==
    /\ grade.pc = "Idle"
    /\ \E row \in Rows :
          grade' = GradeRowParsed(row, RowIdentifier(row), GradeSubmissionParse(row))
    /\ UNCHANGED <<coreVars, addr, post, folder, opVars>>

(* GradePage::parse on a fetched grade page *)
CallGradePageParse ==
    /\ grade.pc = "Idle"
    /\ \E doc \in GradePageDocs : grade' = GradePageParsed(doc, GradePageParseDocument(doc))
    /\ UNCHANGED <<coreVars, addr, post, folder, opVars>>

NextGrade ==
    \/ CallGradeSubmissionParse
    \/ CallGradePageParse

----------------------------------------------------------------------------
(* GradeSubmission::upload (src/src/exercise/grades/submission.rs) and     *)
(* IliasClient::post_querypath_multipart (src/src/client.rs)               *)

(* A request as the platform sees it: a GET or a multipart POST, where it   *)
(* went, and whether the client took its response for a success            *)
Issued(kind, querypath, ok) == [kind |-> kind, querypath |-> querypath, ok |-> ok]

(* The first position from `from` on where m occurs in s, or 0 *)
Find(s, m, from) ==
    IF \E i \in Occurrences(s, m) : i >= from
    THEN Min({i \in Occurrences(s, m) : i >= from})
    ELSE 0

Max(S) == CHOOSE x \in S : \A y \in S : y <= x

(* il\.UI\.Input\.File\.init\( *)
FileInitCall == "il.UI.Input.File.init("

(* (?<querypath>[^']+)' between the quotes at q3 and q4 *)
QuotedQuerypath(s, q3, q4) ==
    IF q4 = 0 \/ q4 = q3 + 1 THEN NoneOpt ELSE Some(SubSeq(s, q3 + 1, q4 - 1))

(* ,[^']*' after the quote at q2, then the querypath *)
SecondArgument(s, q2, q3) ==
    IF q3 = 0 THEN NoneOpt ELSE QuotedQuerypath(s, q3, Find(s, "'", q3 + 1))

(* '[^']*' from the quote at q1 on, then a comma *)
FirstArgument(s, q1, q2) ==
    IF q1 = 0 \/ q2 = 0 \/ q2 >= Len(s) THEN NoneOpt
    ELSE IF SubSeq(s, q2 + 1, q2 + 1) # "," THEN NoneOpt
    ELSE SecondArgument(s, q2, Find(s, "'", q2 + 2))

FirstQuoted(s, q1) == FirstArgument(s, q1, IF q1 = 0 THEN 0 ELSE Find(s, "'", q1 + 1))

(* [^']*'[^']*',[^']*'(?<querypath>[^']+)' from position p of s on *)
InitArguments(s, p) == FirstQuoted(s, Find(s, "'", p))

(* The places where the call and its arguments match *)
InitMatches(s) ==
    {i \in Occurrences(s, FileInitCall) : InitArguments(s, i + Len(FileInitCall)) # NoneOpt}

(* The end of the line that position i of s is in *)
LineEnd(s, i) == IF Find(s, "\n", i) = 0 THEN Len(s) + 1 ELSE Find(s, "\n", i)

(* The match the leading .* leaves: it starts at the leftmost place, which  *)
(* is in the line of the first call that matches, and being greedy it ends  *)
(* before the last call of that line that matches                           *)
GreedyMatch(s, matches) ==
    IF matches = {} THEN NoneOpt
    ELSE InitArguments(s, Max({i \in matches : i < LineEnd(s, Min(matches))})
                              + Len(FileInitCall))

(* upload_post_regex.captures(&script), the group querypath *)
ExtractUploadQuerypath(script) == GreedyMatch(script, InitMatches(script))

(* IliasClient::post_querypath_multipart: send, then error_for_status *)
PostQuerypathMultipart(querypath, reply) ==
    IF reply = NoneOpt THEN Err("Could not send multipart form")
    ELSE IF IsErrorStatus(Unwrap(reply).status) THEN Err("Response had an error status code")
    ELSE Ok(Unwrap(reply))

MultipartPost(querypath, reply) ==
    Issued("multipart", querypath, PostQuerypathMultipart(querypath, reply).status = "Ok")

(* select(form).next(), then attr("action") *)
FormAction(form) ==
    IF form = NoneOpt THEN Err("Did not find form to upload feedback")
    ELSE IF Unwrap(form).action = NoneOpt THEN Err("Form did not have action")
    ELSE Ok(Unwrap(Unwrap(form).action))

(* self.file_feedback_querypath *)
FileFeedbackQuerypath == "ilias.php?cmd=listFiles&member_id=1"

(* get_json::<UploadResponse>, then the status it reports *)
UploadReply(reply) ==
    IF reply.json = NoneOpt THEN Err("Could not deserialize upload response")
    ELSE IF Unwrap(reply.json) # 1 THEN Err("Error response for feedback upload")
    ELSE OkNone

(* The outcome of a call: the requests it issued, and its result *)
Outcome(requests, result) == [requests |-> requests, result |-> result]

(* The branch of the script-embedded endpoint (lines 167 to 207) *)
UploadEmbedded(get, upload_querypath, modal, part_ok, reply, sent) ==
    IF modal.status # "Ok" THEN Outcome(<<get>>, modal)
    ELSE IF ~part_ok THEN Outcome(<<get>>, Err("Could not construct file part"))
    ELSE IF sent.status # "Ok"
    THEN Outcome(<<get, MultipartPost(upload_querypath, reply)>>,
                 Err("Could not send submission form"))
    ELSE Outcome(<<get, MultipartPost(upload_querypath, reply)>>, UploadReply(Unwrap(reply)))

(* The branch of the toolbar form (lines 208 to 227) *)
UploadToolbar(get, toolbar, part_ok, reply) ==
    IF toolbar.status # "Ok" THEN Outcome(<<get>>, toolbar)
    ELSE IF ~part_ok THEN Outcome(<<get>>, Err("Could not construct file part"))
    ELSE IF PostQuerypathMultipart(Unwrap(toolbar.value), reply).status # "Ok"
    THEN Outcome(<<get, MultipartPost(Unwrap(toolbar.value), reply)>>,
                 Err("Could not send submission form"))
    ELSE Outcome(<<get, MultipartPost(Unwrap(toolbar.value), reply)>>, OkNone)

UploadToolbarFirst(get, page, captures, part_ok, reply) ==
    IF page.script = NoneOpt
    THEN Outcome(<<get>>, Err("Did not find script that contains upload post querypath"))
    ELSE IF FormAction(page.toolbar).status = "Ok" \/ captures = NoneOpt
    THEN UploadToolbar(get, FormAction(page.toolbar), part_ok, reply)
    ELSE UploadEmbedded(get, Unwrap(captures), FormAction(page.modal), part_ok, reply,
                        PostQuerypathMultipart(Unwrap(captures), reply))

(* After the page is there: the script, the captures, and the branch *)
UploadOnPage(get, page, captures, part_ok, reply) ==
    IF page.script = NoneOpt
    THEN Outcome(<<get>>, Err("Did not find script that contains upload post querypath"))
    ELSE IF captures # NoneOpt
    THEN UploadEmbedded(get, Unwrap(captures), FormAction(page.modal), part_ok, reply,
                        PostQuerypathMultipart(Unwrap(captures), reply))
    ELSE UploadToolbar(get, FormAction(page.toolbar), part_ok, reply)

(* The captures of the script of a page, if it has a script *)
CapturesOf(page) ==
    IF page.script = NoneOpt THEN NoneOpt ELSE ExtractUploadQuerypath(Unwrap(page.script))

(* GradeSubmission::upload *)
GradeSubmissionUpload(response, part_ok, reply) ==
    IF response = NoneOpt
    THEN Outcome(<<Issued("get", FileFeedbackQuerypath, FALSE)>>,
                 Err("Could not get text for querypath"))
    ELSE UploadOnPage(Issued("get", FileFeedbackQuerypath, TRUE), Unwrap(response),
                      CapturesOf(Unwrap(response)), part_ok, reply)

(* The text of body script:last-child *)
UploadScripts ==
    {"",
     "il.UI.Input.File.init('f', 'ilias.php?cmd=upload')",
     "il.UI.Input.File.init('f', '')",
     "il.UI.Input.File.init(1, 'ilias.php?cmd=upload')",
     "il.UI.Input.File.init('a', 'x1'); il.UI.Input.File.init('b', 'x2');",
     "il.UI.Input.File.init('a', 'x1');\nil.UI.Input.File.init('b', 'x2');"}

(* A form element: absent, or with or without an action *)
UploadForms(action) == {NoneOpt, Some([action |-> NoneOpt]), Some([action |-> Some(action)])}

(* The feedback page, by the elements upload selects *)
FeedbackPages ==
    [script : {NoneOpt} \cup {Some(s) : s \in UploadScripts},
     modal : UploadForms("ilias.php?cmd=modal"),
     toolbar : UploadForms("ilias.php?cmd=uploadFeedback")]

(* What a multipart POST gets: no response, or a status and a body that is  *)
(* JSON with a status or is not JSON                                        *)
MultipartReplies ==
    {NoneOpt} \cup {Some(r) : r \in [status : {200, 500}, json : {NoneOpt, Some(0), Some(1)}]}

FeedbackInit ==
    [pc |-> "Idle", response |-> {}, part_ok |-> TRUE, reply |-> {},
     requests |-> <<>>, result |-> OkNone]

FeedbackDone(response, part_ok, reply, outcome) ==
    [pc |-> "Done", response |-> response, part_ok |-> part_ok, reply |-> reply,
     requests |-> outcome.requests, result |-> outcome.result]

(* GradeSubmission::upload on a submission, against what the platform sends *)
CallUpload ==
    /\ upload.pc = "Idle"
    /\ \E response \in {NoneOpt} \cup {Some(p) : p \in FeedbackPages},
          part_ok \in BOOLEAN, reply \in MultipartReplies :
          upload' = FeedbackDone(response, part_ok, reply,
                                   GradeSubmissionUpload(response, part_ok, reply))
    /\ UNCHANGED <<coreVars, client, addr, post, folder, grade, upload_files, element, exercise, scan>>

NextFeedback == CallUpload

----------------------------------------------------------------------------
(* Folder::upload_files (src/src/folder.rs) and                            *)
(* IliasClient::is_alert_response (src/src/client.rs)                      *)

MaxFiles == 2

(* A request with the form it carries *)
Posted(kind, querypath, form, ok) ==
    [kind |-> kind, querypath |-> querypath, form |-> form, ok |-> ok]

(* IliasClient::is_alert_response: the text, then .alert-danger *)
IsAlertResponse(response) ==
    IF response.text = NoneOpt THEN Err("Could not get text of response")
    ELSE Ok(Unwrap(response.text).alert)

(* Form::new().part("file[0]", ...) posted to the endpoint of the script *)
UploadPost(upload_querypath, file, exchange) ==
    Posted("multipart", upload_querypath, << <<"file[0]", file.path>> >>,
           PostQuerypathMultipart(upload_querypath, exchange.upload).status = "Ok")

(* finish_form: the file's name, no description, the file id, the license *)
FinishForm(file, file_id) ==
    << <<"form/input_0[input_1][]", file.name>>,
       <<"form/input_0[input_2][]", "">>,
       <<"form/input_0[input_3][]", file_id>>,
       <<"form/input_1", "7">> >>

FinishPost(finish_upload_querypath, file, exchange) ==
    Posted("multipart", finish_upload_querypath,
           FinishForm(file, Unwrap(Unwrap(exchange.upload).json)),
           PostQuerypathMultipart(finish_upload_querypath, exchange.finish).status = "Ok")

(* After the finish POST: is_alert_response, and the error banner *)
AlertChecked(requests, alert) ==
    IF alert.status # "Ok"
    THEN Outcome(requests, Err("Could not check error state of response"))
    ELSE IF Unwrap(alert.value)
    THEN Outcome(requests, Err("Upload response has an error, please check if the file was uploaded and report"))
    ELSE Outcome(requests, OkNone)

(* One turn of the loop over the files (lines 208 to 237) *)
UploadFile(file, exchange, upload_querypath, finish_upload_querypath) ==
    IF ~exchange.part_ok THEN Outcome(<<>>, Err("Could not construct file part"))
    ELSE IF PostQuerypathMultipart(upload_querypath, exchange.upload).status # "Ok"
    THEN Outcome(<<UploadPost(upload_querypath, file, exchange)>>,
                 PostQuerypathMultipart(upload_querypath, exchange.upload))
    ELSE IF Unwrap(exchange.upload).json = NoneOpt
    THEN Outcome(<<UploadPost(upload_querypath, file, exchange)>>,
                 Err("Could not get json from response"))
    ELSE IF PostQuerypathMultipart(finish_upload_querypath, exchange.finish).status # "Ok"
    THEN Outcome(<<UploadPost(upload_querypath, file, exchange),
                   FinishPost(finish_upload_querypath, file, exchange)>>,
                 PostQuerypathMultipart(finish_upload_querypath, exchange.finish))
    ELSE AlertChecked(<<UploadPost(upload_querypath, file, exchange),
                        FinishPost(finish_upload_querypath, file, exchange)>>,
                      IsAlertResponse(Unwrap(exchange.finish)))

(* What the turns from a turn on add to it: nothing if it failed *)
FollowedBy(turn, rest) ==
    IF turn.result.status # "Ok" THEN turn
    ELSE Outcome(turn.requests \o rest.requests, rest.result)

RECURSIVE UploadEachContinuing(_, _, _, _, _)
UploadEachContinuing(i, files, exchanges, upload_querypath, finish_upload_querypath) ==
    IF i > Len(files) THEN Outcome(<<>>, OkNone)
    ELSE Outcome(UploadFile(files[i], exchanges[i], upload_querypath,
                            finish_upload_querypath).requests
                    \o UploadEachContinuing(i + 1, files, exchanges, upload_querypath,
                                            finish_upload_querypath).requests,
                 IF UploadFile(files[i], exchanges[i], upload_querypath,
                               finish_upload_querypath).result.status # "Ok"
                 THEN UploadFile(files[i], exchanges[i], upload_querypath,
                                 finish_upload_querypath).result
                 ELSE UploadEachContinuing(i + 1, files, exchanges, upload_querypath,
                                           finish_upload_querypath).result)

(* for file_data in files, from the i-th file on *)
RECURSIVE UploadEach(_, _, _, _, _)
UploadEach(i, files, exchanges, upload_querypath, finish_upload_querypath) ==
    IF i > Len(files) THEN Outcome(<<>>, OkNone)
    ELSE FollowedBy(UploadFile(files[i], exchanges[i], upload_querypath,
                               finish_upload_querypath),
                    UploadEach(i + 1, files, exchanges, upload_querypath,
                               finish_upload_querypath))

(* After the upload page is there (lines 184 to 239): the action of the     *)
(* content form and the first inline script are unwrapped                   *)
UploadFilesOnPage(get, page, captures, files, exchanges) ==
    IF page.form = NoneOpt \/ Unwrap(page.form).action = NoneOpt \/ page.script = NoneOpt
    THEN Outcome(<<get>>, Panic("called Option::unwrap() on a None value"))
    ELSE IF captures = NoneOpt
    THEN Outcome(<<get>>, Err("No match for upload querypath found :("))
    ELSE FollowedBy(Outcome(<<get>>, OkNone),
                    UploadEach(1, files, exchanges, Unwrap(captures),
                               Unwrap(Unwrap(page.form).action)))

(* Folder::upload_files *)
FolderUploadFiles(upload_page_querypath, response, files, exchanges) ==
    IF upload_page_querypath = NoneOpt
    THEN Outcome(<<>>, Err("No upload available for this folder"))
    ELSE IF response = NoneOpt
    THEN Outcome(<<Posted("get", Unwrap(upload_page_querypath), <<>>, FALSE)>>,
                 Err("Could not get text for querypath"))
    ELSE UploadFilesOnPage(Posted("get", Unwrap(upload_page_querypath), <<>>, TRUE),
                           Unwrap(response), CapturesOf(Unwrap(response)),
                           files, exchanges)

(* The files to upload: distinct names, in an order *)
LocalFiles ==
    << [name |-> "a.pdf", path |-> "/tmp/a.pdf"],
       [name |-> "b.pdf", path |-> "/tmp/b.pdf"],
       [name |-> "c.pdf", path |-> "/tmp/c.pdf"],
       [name |-> "d.pdf", path |-> "/tmp/d.pdf"] >>

(* What happens to one file: the part is built or not, the upload POST gets *)
(* no response, an error status, a body that is not JSON or a file id, the  *)
(* finish POST gets no response, an error status, a body that cannot be     *)
(* read, a page with the error banner or a page without                     *)
UploadReplies ==
    {NoneOpt, Some([status |-> 500, json |-> Some("f1")]),
     Some([status |-> 200, json |-> NoneOpt]), Some([status |-> 200, json |-> Some("f1")])}

FinishReplies ==
    {NoneOpt, Some([status |-> 500, text |-> Some([alert |-> FALSE])]),
     Some([status |-> 200, text |-> NoneOpt]),
     Some([status |-> 200, text |-> Some([alert |-> TRUE])]),
     Some([status |-> 200, text |-> Some([alert |-> FALSE])])}

FileExchanges ==
    {x \in [part_ok : BOOLEAN, upload : UploadReplies, finish : FinishReplies] :
        /\ ~x.part_ok => x.upload = NoneOpt
        /\ x.upload # Some([status |-> 200, json |-> Some("f1")]) => x.finish = NoneOpt}

(* The upload page: the content form, the first inline script *)
UploadPages ==
    [form : UploadForms("ilias.php?cmd=finishUpload"),
     script : {NoneOpt, Some(""), Some("il.UI.Input.File.init('f', 'ilias.php?cmd=upload')")}]

UploadFilesInit ==
    [pc |-> "Idle", upload_page_querypath |-> {}, response |-> {}, files |-> <<>>,
     exchanges |-> <<>>, requests |-> <<>>, result |-> OkNone]

UploadFilesDone(upload_page_querypath, response, files, exchanges, outcome) ==
    [pc |-> "Done", upload_page_querypath |-> upload_page_querypath,
     response |-> response, files |-> files, exchanges |-> exchanges,
     requests |-> outcome.requests, result |-> outcome.result]

(* Folder::upload_files on a folder with or without an upload page *)
CallUploadFiles ==
    /\ upload_files.pc = "Idle"
    /\ \E upload_page_querypath \in {NoneOpt, Some("ilias.php?cmd=upload_page")},
          response \in {NoneOpt} \cup {Some(p) : p \in UploadPages},
          n \in 0..MaxFiles :
          \E exchanges \in [1..n -> FileExchanges] :
             upload_files' =
                UploadFilesDone(upload_page_querypath, response, SubSeq(LocalFiles, 1, n),
                                exchanges,
                                FolderUploadFiles(upload_page_querypath, response,
                                                  SubSeq(LocalFiles, 1, n), exchanges))
    /\ UNCHANGED <<coreVars, client, addr, post, folder, grade, upload, element, exercise, scan>>

NextUploadFiles == CallUploadFiles

----------------------------------------------------------------------------
(* FolderElement::get_deletion_querypath and FolderElement::delete          *)
(* (src/src/folder.rs)                                                      *)

MaxLinks == 3

(* .filter_map(|element| element.attr("href")).find(contains "cmd=delete") *)
FirstDeleteLink(links) ==
    IF \E i \in DOMAIN links : links[i] # NoneOpt /\ Contains(Unwrap(links[i]), "cmd=delete")
    THEN links[Min({i \in DOMAIN links :
                       links[i] # NoneOpt /\ Contains(Unwrap(links[i]), "cmd=delete")})]
    ELSE NoneOpt

(* get_deletion_querypath with its exchange with the platform: captures is  *)
(* what the pattern for the element's id finds in the folder script,        *)
(* response the answer to the fetch of the action menu.  The result is an   *)
(* Option: .ok()? turns a failed fetch into None                            *)
DeletionLookup(captures, response) ==
    IF captures = NoneOpt THEN [requests |-> <<>>, found |-> NoneOpt]
    ELSE IF response = NoneOpt
    THEN [requests |-> <<Posted("get", Unwrap(captures), <<>>, FALSE)>>, found |-> NoneOpt]
    ELSE [requests |-> <<Posted("get", Unwrap(captures), <<>>, TRUE)>>,
          found |-> FirstDeleteLink(Unwrap(response))]

(* FolderElement::id: a file keeps its id in an Option that is unwrapped *)
ElementId(e) ==
    IF e.id = NoneOpt THEN Panic("called Option::unwrap() on a None value")
    ELSE Ok(Unwrap(e.id))

(* form_data and the confirmation POST (lines 483 to 495) *)
ConfirmPost(get, e, confirm_querypath, answer) ==
    IF ElementId(e).status # "Ok" THEN Outcome(<<get>>, ElementId(e))
    ELSE Outcome(<<get,
                   Posted("post_form", confirm_querypath,
                          << <<"form/input_0", Unwrap(e.id)>> >>,
                          PostQuerypathForm(base_url, confirm_querypath,
                              << <<"form/input_0", Unwrap(e.id)>> >>, answer).result.status = "Ok")>>,
                 IF PostQuerypathForm(base_url, confirm_querypath,
                        << <<"form/input_0", Unwrap(e.id)>> >>, answer).result.status = "Ok"
                 THEN OkNone
                 ELSE Err("Error while submitting delete confirmation"))

ConfirmDeleteUnasked(get, e, page, answer) ==
    IF page.form = NoneOpt \/ Unwrap(page.form).action = NoneOpt
    THEN ConfirmPost(get, e, <<"ilias.php", "?", "cmd=confirmedDelete">>, answer)
    ELSE ConfirmPost(get, e, Unwrap(Unwrap(page.form).action), answer)

(* The confirmation form of the delete page and its action (lines 475-480) *)
ConfirmDelete(get, e, page, answer) ==
    IF page.form = NoneOpt THEN Outcome(<<get>>, Err("Could not find confirmation form"))
    ELSE IF Unwrap(page.form).action = NoneOpt
    THEN Outcome(<<get>>, Err("Could not find action on form"))
    ELSE ConfirmPost(get, e, Unwrap(Unwrap(page.form).action), answer)

(* FolderElement::delete *)
FolderElementDelete(e, response, answer) ==
    IF e.deletion_querypath = NoneOpt
    THEN Outcome(<<>>, Err("You can not delete this element"))
    ELSE IF response = NoneOpt
    THEN Outcome(<<Posted("get", Unwrap(e.deletion_querypath), <<>>, FALSE)>>,
                 Err("Error getting delete page"))
    ELSE ConfirmDelete(Posted("get", Unwrap(e.deletion_querypath), <<>>, TRUE),
                       e, Unwrap(response), answer)

ElementKinds == {"File", "Exercise", "Opencast", "Viewable"}

(* An element as FolderElement::parse builds it has an id; a File built by  *)
(* hand may have none                                                        *)
ElementIds(kind) == IF kind = "File" THEN {NoneOpt, Some("12")} ELSE {Some("12")}

(* The li>a elements of the action menu, by their href attributes *)
ActionLinks ==
    << NoneOpt, Some("ilias.php?cmd=cut&ref_id=12"), Some("ilias.php?cmd=delete&ref_id=12"),
       Some("ilias.php?cmd=delete&ref_id=13") >>

ActionMenus ==
    {SubSeq(ActionLinks, 1, n) : n \in 0..MaxLinks} \cup {SubSeq(ActionLinks, 4, 4)}

(* The delete page: the confirmation form of the modal, and its action *)
DeletePages ==
    [form : {NoneOpt, Some([action |-> NoneOpt])}
              \cup {Some([action |-> Some(q)]) : q \in PostQuerypaths}]

ElementInit ==
    [pc |-> "Idle", kind |-> "", id |-> {}, deletion_querypath |-> {},
     captures |-> {}, menu |-> {}, lookup |-> <<>>,
     page |-> {}, answer |-> {}, requests |-> <<>>, result |-> OkNone]

(* FolderElement::parse at the point where it asks for the deletion         *)
(* endpoint of the element it builds                                        *)
CallGetDeletionQuerypath ==
    /\ element.pc = "Idle"
    /\ \E kind \in ElementKinds, captures \in {NoneOpt, Some("ilias.php?cmd=actions&ref_id=12")},
          menu \in {NoneOpt} \cup {Some(m) : m \in ActionMenus} :
          \E id \in ElementIds(kind) :
             element' = [element EXCEPT !.pc = "Built", !.kind = kind, !.id = id,
                            !.captures = captures, !.menu = menu,
                            !.lookup = DeletionLookup(captures, menu).requests,
                            !.deletion_querypath = DeletionLookup(captures, menu).found]
    /\ UNCHANGED <<coreVars, client, addr, post, folder, grade, upload, upload_files, exercise, scan>>

(* FolderElement::delete on the element *)
CallDelete ==
    /\ element.pc = "Built"
    /\ \E response \in {NoneOpt} \cup {Some(p) : p \in DeletePages},
          answer \in PostResponses :
          element' = [element EXCEPT !.pc = "Done", !.page = response, !.answer = answer,
                         !.requests = FolderElementDelete(element, response, answer).requests,
                         !.result = FolderElementDelete(element, response, answer).result]
    /\ UNCHANGED <<coreVars, client, addr, post, folder, grade, upload, upload_files, exercise, scan>>

NextElement == CallGetDeletionQuerypath \/ CallDelete

----------------------------------------------------------------------------
(* Assignment::parse (src/src/exercise/assignment.rs) and Exercise::parse   *)
(* (src/src/exercise.rs)                                                    *)

MaxAttachmentRows == 4

MaxAssignments == 2

(* The key of a property is one of keys *)
HasKey(property, keys) == property.key # NoneOpt /\ Unwrap(property.key) \in keys

(* Assignment::get_value_for_keys: the first property whose key is one of   *)
(* keys.  find unwraps the key element of every property it passes.         *)
GetValueForKeys(properties, keys) ==
    IF \E i \in DOMAIN properties :
          /\ properties[i].key = NoneOpt
          /\ \A j \in 1..(i - 1) : properties[j].key # NoneOpt /\ ~HasKey(properties[j], keys)
    THEN Panic("Property without key")
    ELSE IF \A i \in DOMAIN properties : ~HasKey(properties[i], keys)
    THEN Err("Could not get key values")
    ELSE IF properties[Min({i \in DOMAIN properties : HasKey(properties[i], keys)})].value
               = NoneOpt
    THEN Err("Could not get key values")
    ELSE Ok(Unwrap(properties[Min({i \in DOMAIN properties :
                                      HasKey(properties[i], keys)})].value))

(* .ok().map(|date| parse_date(date.trim())).transpose()? on the start time *)
SubmissionStartDate(value) ==
    IF value.status = "Panic" THEN value
    ELSE IF value.status = "Err" THEN OkNone
    ELSE IF ParseDate(Trim(Unwrap(value.value))) = NoneOpt
    THEN Err("Could not parse date")
    ELSE Ok(Unwrap(ParseDate(Trim(Unwrap(value.value)))))

(* .and_then(|date| parse_date(date.trim())).ok() on the end date *)
EndDateParsed(value) == [OkNone EXCEPT !.value = ParseDate(Trim(Unwrap(value.value)))]

(* The end date is looked up under its keys, then under the keys of an      *)
(* ended assignment; a failure of the lookups or of parse_date gives None,  *)
(* a property without a key on the way aborts                               *)
SubmissionEndDate(first, second) ==
    IF first.status = "Panic" THEN first
    ELSE IF first.status = "Ok" THEN EndDateParsed(first)
    ELSE IF second.status = "Panic" THEN second
    ELSE IF second.status = "Ok" THEN EndDateParsed(second)
    ELSE OkNone

(* One row of the attachment panel: the filename, the link, its href *)
AttachmentOf(row) ==
    IF row.filename = NoneOpt THEN Err("Could not get attachment filename")
    ELSE IF row.link = NoneOpt THEN Err("Did not find download querypath for attachment")
    ELSE IF Unwrap(row.link).href = NoneOpt
    THEN Err("Did not find download href for attachment")
    ELSE Ok([name |-> Trim(Unwrap(row.filename)), description |-> "",
             download_querypath |-> Unwrap(row.link).href, date |-> NoneOpt, id |-> NoneOpt])

(* for row in the rows taken: the files, or the first failure *)
AttachmentsFrom(rows) ==
    IF \E i \in DOMAIN rows : AttachmentOf(rows[i]).status # "Ok"
    THEN AttachmentOf(rows[Min({i \in DOMAIN rows : AttachmentOf(rows[i]).status # "Ok"})])
    ELSE Ok([i \in DOMAIN rows |-> Unwrap(AttachmentOf(rows[i]).value)])

(* &file_rows[0..file_rows.len() - 2]: with fewer than two rows the         *)
(* subtraction on usize overflows, which panics where overflow is checked   *)
(* and otherwise wraps to an end index far beyond the slice, which panics   *)
Attachments(panel, overflow_checks) ==
    IF panel = NoneOpt THEN Ok(<<>>)
    ELSE IF Len(Unwrap(panel)) < 2
    THEN IF overflow_checks THEN Panic("attempt to subtract with overflow")
         ELSE Panic("range end index out of range for slice")
    ELSE AttachmentsFrom(SubSeq(Unwrap(panel), 1, Len(Unwrap(panel)) - 2))

(* The instruction panel: absent, or its body two elements down *)
Instructions(panel) ==
    IF panel = NoneOpt THEN OkNone
    ELSE IF Unwrap(panel).body = NoneOpt THEN Err("Could not get body for instruction panel")
    ELSE Ok(Trim(Unwrap(Unwrap(panel).body)))

(* #tab_submission > a and its href *)
SubmissionPageQuerypath(page) ==
    IF page.submission_link = NoneOpt THEN NoneOpt ELSE Unwrap(page.submission_link).href

(* What a parse gives: the fetches it issued, and its result *)
Parsed(fetches, result) == [fetches |-> fetches, result |-> result]

(* The Assignment value (lines 180 to 187) *)
AssignmentOf(name, dates, instructions, attachments, submission_page_querypath) ==
    [name |-> name, instructions |-> instructions.value,
     submission_start_date |-> dates.start.value, submission_end_date |-> dates.end.value,
     attachments |-> Unwrap(attachments.value),
     submission |-> FromOptionalQuerypath(submission_page_querypath)]

(* After the detail page is there (lines 103 to 187) *)
AssignmentFromDetail(fetches, name, dates, page, instructions, attachments) ==
    IF instructions.status # "Ok" THEN Parsed(fetches, instructions)
    ELSE IF attachments.status # "Ok" THEN Parsed(fetches, attachments)
    ELSE Parsed(fetches, Ok(AssignmentOf(name, dates, instructions, attachments,
                                         SubmissionPageQuerypath(page))))

AssignmentFetchEager(item, dates, response, overflow_checks) ==
    IF Unwrap(item.title).href = NoneOpt
    THEN Parsed(<<>>, Err("Could not get href attr for detail querypath"))
    ELSE IF response = NoneOpt
    THEN Parsed(<<Unwrap(Unwrap(item.title).href)>>, Err("Could not get detail html"))
    ELSE IF SubmissionPageQuerypath(Unwrap(response)) = NoneOpt
    THEN AssignmentFromDetail(<<Unwrap(Unwrap(item.title).href)>>, Unwrap(item.title).text,
                              dates, Unwrap(response),
                              Instructions(Unwrap(response).instruction_panel),
                              Attachments(Unwrap(response).attachment_panel, overflow_checks))
    ELSE AssignmentFromDetail(<<Unwrap(Unwrap(item.title).href),
                                Unwrap(SubmissionPageQuerypath(Unwrap(response)))>>,
                              Unwrap(item.title).text,
                              dates, Unwrap(response),
                              Instructions(Unwrap(response).instruction_panel),
                              Attachments(Unwrap(response).attachment_panel, overflow_checks))

(* The detail querypath and the one fetch (lines 93 to 101) *)
AssignmentFetch(item, dates, response, overflow_checks) ==
    IF Unwrap(item.title).href = NoneOpt
    THEN Parsed(<<>>, Err("Could not get href attr for detail querypath"))
    ELSE IF response = NoneOpt
    THEN Parsed(<<Unwrap(Unwrap(item.title).href)>>, Err("Could not get detail html"))
    ELSE AssignmentFromDetail(<<Unwrap(Unwrap(item.title).href)>>, Unwrap(item.title).text,
                              dates, Unwrap(response),
                              Instructions(Unwrap(response).instruction_panel),
                              Attachments(Unwrap(response).attachment_panel, overflow_checks))

(* The dates of the listing item (lines 81 to 91) *)
AssignmentDated(item, start, end, response, overflow_checks) ==
    IF start.status # "Ok" THEN Parsed(<<>>, start)
    ELSE IF end.status # "Ok" THEN Parsed(<<>>, end)
    ELSE AssignmentFetch(item, [start |-> start, end |-> end], response, overflow_checks)

(* Assignment::parse on a listing item, response being the answer to the   *)
(* fetch of its detail page                                                 *)
AssignmentParse(item, response, overflow_checks) ==
    IF item.title = NoneOpt THEN Parsed(<<>>, Err("Did not find name"))
    ELSE AssignmentDated(item,
             SubmissionStartDate(GetValueForKeys(item.properties, {"Startzeit", "Start Time"})),
             SubmissionEndDate(GetValueForKeys(item.properties, {"Abgabetermin", "Edit Until"}),
                               GetValueForKeys(item.properties, {"Beendet am", "Ended On"})),
             response, overflow_checks)

(* base_grades_querypath_regex.find: .*ref_id=\d+ ends with the last        *)
(* ref_id= that digits follow                                               *)
BaseGradesQuerypath(querypath) ==
    IF \E i \in Occurrences(querypath, "ref_id=") : DigitRun(querypath, i + 7) # ""
    THEN Some(SubSeq(querypath, 1,
                Max({i \in Occurrences(querypath, "ref_id=") :
                        DigitRun(querypath, i + 7) # ""}) + 6
                + Len(DigitRun(querypath,
                        Max({i \in Occurrences(querypath, "ref_id=") :
                                DigitRun(querypath, i + 7) # ""}) + 7))))
    ELSE NoneOpt

(* The grades tab link (lines 85 to 98): Ok(None) without a link *)
GradesTabQuerypath(link) ==
    IF link = NoneOpt THEN OkNone
    ELSE IF Unwrap(link).href = NoneOpt THEN Err("Did not find href on grades tab link")
    ELSE IF BaseGradesQuerypath(Unwrap(Unwrap(link).href)) = NoneOpt
    THEN Err("Grades querypath had unexpected format")
    ELSE Ok(Unwrap(BaseGradesQuerypath(Unwrap(Unwrap(link).href))))

(* for assignment in element.select(assignment_selector), from the i-th on: *)
(* the fetches of the assignments parsed, the assignments, the first failure *)
RECURSIVE AssignmentsFrom(_, _, _)
AssignmentsFrom(i, items, overflow_checks) ==
    IF i > Len(items) THEN [fetches |-> <<>>, assignments |-> <<>>, result |-> OkNone]
    ELSE IF AssignmentParse(items[i].item, items[i].response, overflow_checks).result.status = "Panic"
    THEN [fetches |-> AssignmentParse(items[i].item, items[i].response, overflow_checks).fetches,
          assignments |-> <<>>,
          result |-> AssignmentParse(items[i].item, items[i].response, overflow_checks).result]
    ELSE IF AssignmentParse(items[i].item, items[i].response, overflow_checks).result.status = "Err"
    THEN [fetches |-> AssignmentParse(items[i].item, items[i].response, overflow_checks).fetches,
          assignments |-> <<>>,
          result |-> Err("Could not parse assignment")]
    ELSE [fetches |-> AssignmentParse(items[i].item, items[i].response, overflow_checks).fetches
                         \o AssignmentsFrom(i + 1, items, overflow_checks).fetches,
          assignments |->
              <<Unwrap(AssignmentParse(items[i].item, items[i].response,
                                       overflow_checks).result.value)>>
                 \o AssignmentsFrom(i + 1, items, overflow_checks).assignments,
          result |-> AssignmentsFrom(i + 1, items, overflow_checks).result]

(* The Exercise value (lines 107 to 112) *)
ExerciseOf(grades_tab_querypath, parsed) ==
    IF parsed.result.status # "Ok" THEN Parsed(parsed.fetches, parsed.result)
    ELSE Parsed(parsed.fetches,
                Ok([assignments |-> parsed.assignments,
                    grades |-> FromOptionalQuerypath(grades_tab_querypath.value)]))

(* Exercise::parse on the exercise page, items being its assignment items   *)
(* each with the answer to the fetch of its detail page                    *)
ExerciseParse(header, items, overflow_checks) ==
    IF ~header.named THEN Parsed(<<>>, Err("No name Element found"))
    ELSE IF ~header.described THEN Parsed(<<>>, Err("No description Element found"))
    ELSE IF GradesTabQuerypath(header.grades_link).status # "Ok"
    THEN Parsed(<<>>, GradesTabQuerypath(header.grades_link))
    ELSE ExerciseOf(GradesTabQuerypath(header.grades_link),
                    AssignmentsFrom(1, items, overflow_checks))

(* The .il-multi-line-cap-3 rows of a listing item: key and value *)
Property(key, value) == [key |-> key, value |-> value]

PropertyRows ==
    {<<>>,
     <<Property(Some("Startzeit"), Some(" 12. Jan 2024, 09:30 "))>>,
     <<Property(Some("Start Time"), Some("soon"))>>,
     <<Property(Some("Startzeit"), NoneOpt)>>,
     <<Property(NoneOpt, Some("12. Jan 2024, 09:30"))>>,
     <<Property(Some("Startzeit"), Some("12. Jan 2024, 09:30")),
       Property(Some("Abgabetermin"), Some("19. Jan 2024, 09:30"))>>,
     <<Property(Some("Beendet am"), Some("gestern")),
       Property(NoneOpt, NoneOpt)>>}

(* A listing item: its title link, its properties *)
AssignmentItems ==
    [title : {NoneOpt, Some([text |-> "Blatt 1", href |-> NoneOpt]),
              Some([text |-> "Blatt 1", href |-> Some("ilias.php?cmd=showOverview&ass_id=7")])},
     properties : PropertyRows]

(* The rows of the attachment panel: the k-th row with its filename and its *)
(* download link, a row without a filename, a row without a link            *)
AttachmentRow(k) ==
    [filename |-> Some(<<"a.pdf", "b.pdf", "c.pdf", "d.pdf", "e.pdf">>[k]),
     link |-> Some([href |-> Some(<<"dl=1", "dl=2", "dl=3", "dl=4", "dl=5">>[k])])]

BrokenRows ==
    {[filename |-> NoneOpt, link |-> NoneOpt],
     [filename |-> Some("x.pdf"), link |-> NoneOpt],
     [filename |-> Some("x.pdf"), link |-> Some([href |-> NoneOpt])]}

AttachmentPanels ==
    {NoneOpt} \cup {Some([k \in 1..n |-> AttachmentRow(k)]) : n \in 0..MaxAttachmentRows}
    \cup {Some(<<b, AttachmentRow(2), AttachmentRow(3)>>) : b \in BrokenRows}
    \cup {Some(<<AttachmentRow(1), AttachmentRow(2), b>>) : b \in BrokenRows}

(* The detail page of an assignment *)
DetailPages ==
    [instruction_panel : {NoneOpt, Some([body |-> NoneOpt]), Some([body |-> Some(" Aufgabe 1 ")])},
     attachment_panel : AttachmentPanels,
     submission_link : {NoneOpt, Some([href |-> NoneOpt]),
                        Some([href |-> Some("ilias.php?cmd=submissionScreen&ass_id=7")])}]

DetailResponses == {NoneOpt} \cup {Some(p) : p \in DetailPages}

(* The exercise page: name, description and grades tab link *)
ExerciseHeaders ==
    [named : BOOLEAN, described : BOOLEAN,
     grades_link : {NoneOpt, Some([href |-> NoneOpt]),
                    Some([href |-> Some("ilias.php?cmd=showGradesOverview")]),
                    Some([href |-> Some("ilias.php?ref_id=77&cmd=showGradesOverview&ref_id=9a")])}]

(* The assignment items of an exercise page with the answers to the fetches *)
(* of their detail pages: one that parses with a submission link, one that  *)
(* parses without, one that fails before its fetch, one whose fetch fails,  *)
(* one whose attachment panel has a single row                              *)
GoodItem ==
    [title |-> Some([text |-> "Blatt 1",
                     href |-> Some("ilias.php?cmd=showOverview&ass_id=7")]),
     properties |-> <<>>]

PlainPage(panel, link) ==
    Some([instruction_panel |-> NoneOpt, attachment_panel |-> panel, submission_link |-> link])

ListedAssignments ==
    {[item |-> GoodItem,
      response |-> PlainPage(NoneOpt, Some([href |-> Some("ilias.php?cmd=submissionScreen&ass_id=7")]))],
     [item |-> GoodItem, response |-> PlainPage(NoneOpt, NoneOpt)],
     [item |-> [GoodItem EXCEPT !.title = NoneOpt], response |-> NoneOpt],
     [item |-> GoodItem, response |-> NoneOpt],
     [item |-> GoodItem, response |-> PlainPage(Some(<<AttachmentRow(1)>>), NoneOpt)]}

ExerciseInit ==
    [pc |-> "Idle", op |-> "", item |-> {}, response |-> {}, header |-> {}, items |-> <<>>,
     fetches |-> <<>>, result |-> OkNone]

(* Assignment::parse on a listing item *)
CallAssignmentParse ==
    /\ exercise.pc = "Idle"
    /\ \E item \in AssignmentItems, response \in DetailResponses, overflow_checks \in BOOLEAN :
          exercise' = [exercise EXCEPT !.pc = "Done", !.op = "Assignment::parse",
                          !.item = {item}, !.response = response,
                          !.fetches = AssignmentParse(item, response, overflow_checks).fetches,
                          !.result = AssignmentParse(item, response, overflow_checks).result]
    /\ UNCHANGED <<coreVars, client, addr, post, folder, grade, upload, upload_files, element, scan>>

(* Exercise::parse on an exercise page *)
CallExerciseParse ==
    /\ exercise.pc = "Idle"
    /\ \E header \in ExerciseHeaders, n \in 0..MaxAssignments, overflow_checks \in BOOLEAN :
          \E items \in [1..n -> ListedAssignments] :
             exercise' = [exercise EXCEPT !.pc = "Done", !.op = "Exercise::parse",
                             !.header = {header}, !.items = items,
                             !.fetches = ExerciseParse(header, items, overflow_checks).fetches,
                             !.result = ExerciseParse(header, items, overflow_checks).result]
    /\ UNCHANGED <<coreVars, client, addr, post, folder, grade, upload, upload_files, element, scan>>

NextExercise == CallAssignmentParse \/ CallExerciseParse

----------------------------------------------------------------------------
(* The loops that look for a date: over the properties of a file entry      *)
(* (src/src/folder.rs, lines 351 to 360) and over the columns of an         *)
(* uploaded-submission row (src/src/exercise/assignment.rs, lines 318 to    *)
(* 330).  One step is one turn of the loop; next is the position of the     *)
(* iterator the loop takes its cells from.                                  *)

MaxCells == 3

(* The texts of the cells *)
CellTexts == {"pdf", "1,2 MB", "12. Jan 2024, 09:30", "Heute, 12:00"}

CellLists == UNION {[1..n -> CellTexts] : n \in 0..MaxCells}

(* parse_date on the text of a cell *)
CellDate == [text \in CellTexts |-> ParseDate(text)]

(* The error of the loop when next() gives None *)
NoDateLeft(loop) ==
    IF loop = "properties" THEN Err("No date properties left")
    ELSE Err("Did not find date column")

DateLoopTurnPeeking(s) ==
    IF s.next > Len(s.cells) THEN [s EXCEPT !.pc = "Done", !.result = NoDateLeft(s.loop)]
    ELSE IF CellDate[s.cells[s.next]] # NoneOpt
    THEN [s EXCEPT !.pc = "Done", !.next = @ + 1,
                   !.result = Ok(Unwrap(CellDate[s.cells[s.next]]))]
    ELSE s

(* One turn: next() on the iterator, parse_date on the text of the cell,    *)
(* break with the date or continue                                          *)
DateLoopTurn(s) ==
    IF s.next > Len(s.cells) THEN [s EXCEPT !.pc = "Done", !.result = NoDateLeft(s.loop)]
    ELSE IF CellDate[s.cells[s.next]] # NoneOpt
    THEN [s EXCEPT !.pc = "Done", !.next = @ + 1,
                   !.result = Ok(Unwrap(CellDate[s.cells[s.next]]))]
    ELSE [s EXCEPT !.next = @ + 1]

ScanInit == [pc |-> "Idle", loop |-> "", cells |-> <<>>, next |-> 1, result |-> OkNone]

(* The code reaches one of the loops, with the cells left in the iterator *)
ScanStart ==
    /\ scan.pc = "Idle"
    /\ \E loop \in {"properties", "columns"}, cells \in CellLists :
          scan' = [scan EXCEPT !.pc = "Scanning", !.loop = loop, !.cells = cells]
    /\ UNCHANGED <<coreVars, client, addr, post, folder, grade, upload, upload_files, element, exercise>>

(* One turn of the loop *)
ScanTurn ==
    /\ scan.pc = "Scanning"
    /\ scan' = DateLoopTurn(scan)
    /\ UNCHANGED <<coreVars, client, addr, post, folder, grade, upload, upload_files, element, exercise>>

NextScan == ScanStart \/ ScanTurn

----------------------------------------------------------------------------
(* IliasClient::get_querypath, post_querypath_multipart and download_file   *)
(* (src/src/client.rs), called on their own                                 *)

(* What the platform does with the GET of get_querypath: no response, a     *)
(* response whose text cannot be read, or a response with its text          *)
ClientResponses == {NoneOpt, Some([text |-> NoneOpt]), Some([text |-> Some("<html>")])}

ClientQuerypaths == {"ilias.php?cmd=view", "goto.php?target=file_5_download"}

(* The response came and its text was read *)
TextRead(response) == response # NoneOpt /\ Unwrap(response).text # NoneOpt

(* get_querypath that sends the GET again when the first one failed *)
ClientGetQuerypathRetrying(querypath, response) ==
    IF ~TextRead(response)
    THEN Outcome(<<Issued("get", querypath, FALSE), Issued("get", querypath, FALSE)>>,
                 Err("Could not get text for querypath"))
    ELSE Outcome(<<Issued("get", querypath, TRUE)>>, Ok(Unwrap(Unwrap(response).text)))

(* IliasClient::get_querypath: one GET; send and text both end in the same  *)
(* error; the text is parsed into the document                              *)
ClientGetQuerypath(querypath, response) ==
    IF ~TextRead(response)
    THEN Outcome(<<Issued("get", querypath, FALSE)>>, Err("Could not get text for querypath"))
    ELSE Outcome(<<Issued("get", querypath, TRUE)>>, Ok(Unwrap(Unwrap(response).text)))

(* IliasClient::post_querypath_multipart: one POST, then error_for_status   *)
ClientPostQuerypathMultipart(querypath, reply) ==
    Outcome(<<MultipartPost(querypath, reply)>>, PostQuerypathMultipart(querypath, reply))

(* IliasClient::download_file: one GET, the file opened for writing, the    *)
(* body copied into it; each step ends the call in "Could not download file" *)
ClientDownloadFile(querypath, response, opened, copied) ==
    IF response = NoneOpt
    THEN Outcome(<<Issued("get", querypath, FALSE)>>, Err("Could not download file"))
    ELSE IF ~opened
    THEN Outcome(<<Issued("get", querypath, TRUE)>>, Err("Could not download file"))
    ELSE IF ~copied
    THEN Outcome(<<Issued("get", querypath, FALSE)>>, Err("Could not download file"))
    ELSE Outcome(<<Issued("get", querypath, TRUE)>>, OkNone)

ClientInit == [pc |-> "Idle", op |-> "none", requests |-> <<>>, result |-> OkNone]

ClientDone(op, outcome) ==
    [pc |-> "Done", op |-> op, requests |-> outcome.requests, result |-> outcome.result]

CallGetQuerypath ==
    /\ client.pc = "Idle"
    /\ \E querypath \in ClientQuerypaths, response \in ClientResponses :
          client' = ClientDone("get_querypath", ClientGetQuerypath(querypath, response))
    /\ UNCHANGED <<coreVars, addr, post, folder, grade, upload, upload_files, element, exercise, scan>>

CallPostQuerypathMultipart ==
    /\ client.pc = "Idle"
    /\ \E querypath \in ClientQuerypaths, reply \in MultipartReplies :
          client' = ClientDone("post_querypath_multipart",
                               ClientPostQuerypathMultipart(querypath, reply))
    /\ UNCHANGED <<coreVars, addr, post, folder, grade, upload, upload_files, element, exercise, scan>>

CallDownloadFile ==
    /\ client.pc = "Idle"
    /\ \E querypath \in ClientQuerypaths, response \in {NoneOpt, Some([status |-> 200])},
          opened \in BOOLEAN, copied \in BOOLEAN :
          client' = ClientDone("download_file",
                               ClientDownloadFile(querypath, response, opened, copied))
    /\ UNCHANGED <<coreVars, addr, post, folder, grade, upload, upload_files, element, exercise, scan>>

NextClient == CallGetQuerypath \/ CallPostQuerypathMultipart \/ CallDownloadFile

(* The operations that send requests, one of them running at a time: the    *)
(* others are as they were constructed                                      *)
RefIdle == ncalls = 0 /\ last = NoCall /\ \A r \in Refs : refs[r] = Absent

Quiet(running) ==
    /\ running = "ref" \/ RefIdle
    /\ running = "auth" \/ auth = AuthInit
    /\ running = "post" \/ post = PostInit
    /\ running = "upload" \/ upload = FeedbackInit
    /\ running = "upload_files" \/ upload_files = UploadFilesInit
    /\ running = "element" \/ element = ElementInit
    /\ running = "client" \/ client = ClientInit

NextRequests ==
    \/ Quiet("ref") /\ NextRef
    \/ Quiet("auth") /\ NextAuth
    \/ Quiet("post") /\ NextPost
    \/ Quiet("upload") /\ NextFeedback
    \/ Quiet("upload_files") /\ NextUploadFiles
    \/ Quiet("element") /\ NextElement
    \/ Quiet("client") /\ NextClient

----------------------------------------------------------------------------
(* Specifications.  The references and the handshake share no state, so     *)
(* each is checked under its own specification.                             *)

Init ==
    /\ refs = [r \in Refs |-> Absent]
    /\ ncalls = 0
    /\ stats = [r \in Refs |-> NoStats]
    /\ last = NoCall
    /\ crashed = FALSE
    /\ base_url \in BaseUrls
    /\ auth = AuthInit
    /\ addr = AddrInit
    /\ post = PostInit
    /\ folder = FolderInit
    /\ grade = GradeInit
    /\ upload = FeedbackInit
    /\ upload_files = UploadFilesInit
    /\ element = ElementInit
    /\ exercise = ExerciseInit
    /\ scan = ScanInit
    /\ client = ClientInit

Next ==
    \/ NextRef \/ NextAuth \/ NextAddr \/ NextPost \/ NextFolder \/ NextGrade
    \/ NextFeedback \/ NextUploadFiles \/ NextElement \/ NextExercise \/ NextScan
    \/ NextClient

(* The references and their accessors *)
SpecRef == Init /\ [][NextRef]_vars

(* The login handshake *)
SpecAuth == Init /\ [][NextAuth]_vars

(* Addressing *)
SpecAddr == Init /\ [][NextAddr]_vars

(* Form posts *)
SpecPost == Init /\ [][NextPost]_vars

(* Folder listings *)
SpecFolder == Init /\ [][NextFolder]_vars

(* Grade pages *)
SpecGrade == Init /\ [][NextGrade]_vars

(* Feedback upload to a submission *)
SpecFeedback == Init /\ [][NextFeedback]_vars

(* Uploads to a folder *)
SpecUploadFiles == Init /\ [][NextUploadFiles]_vars

(* The deletion endpoint of a folder element, and its deletion *)
SpecElement == Init /\ [][NextElement]_vars

(* The parse of assignments and exercises *)
SpecExercise == Init /\ [][NextExercise]_vars

(* The date loops.  A loop is sequential code on a running thread: a turn that
   can be taken is taken *)
SpecScan == Init /\ [][NextScan]_vars

FairSpecScan == Init /\ [][NextScan]_vars /\ WF_vars(ScanTurn)

(* The operations that send requests, one call at a time *)
SpecRequests == Init /\ [][NextRequests]_vars

Spec == Init /\ [][Next]_vars

----------------------------------------------------------------------------
(* Properties of the references (SpecRef) *)

(* C1: a reference that starts Unresolved and is resolved twice, both calls *)
(* succeeding, has cost exactly one fetch, and the second call issued none. *)
C1_ResolveTwiceFetchesOnce ==
    (/\ stats["page"].born = "Unresolved"
     /\ last.op = "resolve"
     /\ stats["page"].calls = 2
     /\ stats["page"].oks = 2)
        => (stats["page"].fetches = 1 /\ last.fetches = <<>>)

(* C2: from_optional_querypath(None) is Unavailable and                     *)
(* from_optional_querypath(Some(q)) is Unresolved(q); resolve on an         *)
(* Unavailable reference is an error and issues no fetch.                   *)
C2_UnavailableNeverFetches ==
    /\ (last.op = "from_optional_querypath" /\ last.arg = {})
          => (refs[last.ref].tag = "Unavailable" /\ refs[last.ref].querypath = {})
    /\ (last.op = "from_optional_querypath" /\ last.arg # {})
          => (refs[last.ref].tag = "Unresolved" /\ refs[last.ref].querypath = last.arg)
    /\ (last.op = "resolve" /\ last.pre.tag = "Unavailable")
          => (/\ last.result.status = "Err"
              /\ last.fetches = <<>>
              /\ stats["page"].fetches = 0)

C2_Witness ==
    /\ last.op = "resolve"
    /\ last.pre.tag = "Unavailable"
    /\ stats["page"].born = "Unavailable"
    /\ last.result.status = "Err"

C4_OnlyUnresolvedToResolved ==
    [][\A r \in Refs :
          \/ refs'[r] = refs[r]
          \/ refs[r].tag = "Absent"
          \/ refs[r].tag = "Unresolved" /\ refs'[r].tag = "Resolved"]_vars

C4_Witness ==
    /\ refs["submission"].tag = "Resolved"
    /\ stats["submission"].born = "Unresolved"
    /\ stats["submission"].calls > stats["submission"].oks
    /\ refs["page"].tag = "Unresolved"
    /\ stats["page"].oks > 0

(* C5: once an accessor call has succeeded, a later call returns the stored *)
(* value with no request; on an Unavailable reference the accessors return  *)
(* absent with no request; no second successful call fetches again.         *)
C5_AccessorsFetchOnce ==
    (last.op \in {"get_submission", "get_grades"})
        => /\ last.pre.tag = "Resolved"
                => (/\ last.result.status = "Ok"
                    /\ last.result.value = last.pre.value
                    /\ last.fetches = <<>>
                    /\ refs[last.ref] = last.pre)
           /\ last.pre.tag = "Unavailable"
                => (/\ last.result.status = "Ok"
                    /\ last.result.value = {}
                    /\ last.fetches = <<>>
                    /\ stats[last.ref].fetches = 0)
           /\ (last.result.status = "Ok" /\ last.result.value # {}
                    /\ stats[last.ref].oks >= 2)
                => last.fetches = <<>>

C5_Witness ==
    /\ last.op = "get_submission"
    /\ stats["submission"].oks >= 2
    /\ last.fetches = <<>>
    /\ stats["submission"].fetches = 2

----------------------------------------------------------------------------
(* Properties of the login handshake (SpecAuth) *)

RequestsOf(kind) == {i \in DOMAIN auth.requests : auth.requests[i].kind = kind}

(* The positions of the first form with method post, and of its action *)
PostForms(page) ==
    {i \in DOMAIN page.forms :
        /\ page.forms[i].method = "post"
        /\ \A j \in 1..(i - 1) : page.forms[j].method # "post"}

HasLoginForm(page) ==
    /\ page.csrf # {}
    /\ Unwrap(page.csrf).value # {}
    /\ \E i \in PostForms(page) : page.forms[i].action # {}

CarriesCredentials(request, page) ==
    /\ HasField(request.form, "csrf_token")
    /\ {Field(request.form, "csrf_token")} = Unwrap(page.csrf).value
    /\ HasField(request.form, "j_username")
    /\ Field(request.form, "j_username") = auth.username
    /\ HasField(request.form, "j_password")
    /\ Field(request.form, "j_password") = auth.password

(* C6, as claimed: a login page with a CSRF field leads to exactly one      *)
(* credential POST carrying that token, username and password; a login page *)
(* without one leads to none, and is itself the continuation page.          *)
C6_CsrfFieldGivesOnePost ==
    auth.shib_login_fragment # {}
        => LET page == Unwrap(auth.shib_login_fragment) IN
           IF page.csrf # {}
           THEN /\ Cardinality(RequestsOf("credential")) = 1
                /\ \A i \in RequestsOf("credential") :
                      CarriesCredentials(auth.requests[i], page)
           ELSE /\ RequestsOf("credential") = {}
                /\ auth.shib_continue_fragment = auth.shib_login_fragment

(* C6, amended: the credential POST is issued, once, when the CSRF field    *)
(* has a value and the page has a POST-method form with an action; a CSRF   *)
(* field without them ends the handshake with an error and no credential    *)
(* POST; a page without the field leads to none and is the continuation     *)
(* page.                                                                    *)
C6_CredentialPostNeedsForm ==
    auth.shib_login_fragment # {}
        => LET page == Unwrap(auth.shib_login_fragment) IN
           IF page.csrf = {}
           THEN /\ RequestsOf("credential") = {}
                /\ auth.shib_continue_fragment = auth.shib_login_fragment
           ELSE IF HasLoginForm(page)
           THEN /\ Cardinality(RequestsOf("credential")) = 1
                /\ \A i \in RequestsOf("credential") :
                      CarriesCredentials(auth.requests[i], page)
           ELSE /\ RequestsOf("credential") = {}
                /\ auth.pc = "Done"
                /\ \A res \in auth.result : res.status = "Err"
                /\ auth.result # {}
                /\ Len(auth.requests) = 1

C6_Witness ==
    /\ auth.shib_login_fragment # {}
    /\ HasLoginForm(Unwrap(auth.shib_login_fragment))
    /\ Unwrap(Unwrap(auth.shib_login_fragment).csrf).value = {"t2"}
    /\ Cardinality(RequestsOf("credential")) = 1
    /\ auth.pc = "Done"

(* C7: when the provider-selection POST lands on the platform's own host,   *)
(* authenticate returns success at once and issues no further request.      *)
C7_SameHostEndsEarly ==
    (/\ auth.landing # {}
     /\ Unwrap(auth.landing).host = base_url.host
     /\ auth.pc \in {"Done", "Aborted"})
        => (/\ auth.result = {OkNone}
            /\ Len(auth.requests) = 1)

(* C8: a continuation page without a SAMLResponse field makes authenticate  *)
(* fail with an error, and the assertion POST is never issued.              *)
C8_NoAssertionFieldFails ==
    (auth.shib_continue_fragment # {} /\ Unwrap(auth.shib_continue_fragment).saml = {})
        => /\ RequestsOf("assertion") = {}
           /\ auth.pc # "Aborted"
           /\ auth.pc # "Extract"
                => (/\ auth.pc = "Done"
                    /\ auth.result # {}
                    /\ \A res \in auth.result : res.status = "Err")

C8_Witness ==
    /\ auth.shib_continue_fragment # {}
    /\ Unwrap(auth.shib_continue_fragment).saml = {}
    /\ RequestsOf("credential") # {}
    /\ auth.pc = "Done"

(* C9: the assertion POST carries the assertion token of the continuation   *)
(* page and, as relay state, the address the first POST was sent to (the    *)
(* federated-login endpoint), and goes to the action of the continuation    *)
(* page's first POST-method form.                                           *)
C9_AssertionPostFields ==
    \A i \in RequestsOf("assertion") :
        LET request == auth.requests[i]
            page == Unwrap(auth.shib_continue_fragment)
        IN  /\ auth.shib_continue_fragment # {}
            /\ page.saml # {}
            /\ HasField(request.form, "SAMLResponse")
            /\ {Field(request.form, "SAMLResponse")} = Unwrap(page.saml).value
            /\ HasField(request.form, "RelayState")
            /\ auth.requests[1].kind = "selection"
            /\ Field(request.form, "RelayState") = auth.requests[1].url
            /\ Field(request.form, "RelayState")
                  = base_url.scheme \o <<":", "/", "/">> \o base_url.host
                        \o <<"/", "shib_login.php">>
            /\ \E k \in PostForms(page) : page.forms[k].action = {request.url}

C9_Witness ==
    /\ RequestsOf("assertion") # {}
    /\ RequestsOf("credential") # {}
    /\ Len(Unwrap(auth.shib_continue_fragment).forms) = 2
    /\ Unwrap(auth.shib_continue_fragment).forms[1].method = "get"

(* C10: once the assertion POST is out, authenticate returns success        *)
(* exactly when its response has a success status (2xx), an error otherwise *)
C10_SuccessIffSuccessStatus ==
    RequestsOf("assertion") # {}
        => /\ auth.pc = "Done"
           /\ auth.result # {}
           /\ \A res \in auth.result :
                 /\ res.status \in {"Ok", "Err"}
                 /\ res.status = "Ok"
                       <=> \E s \in auth.status : 200 <= s /\ s <= 299

C10_Witness ==
    /\ RequestsOf("assertion") # {}
    /\ auth.status = {299}
    /\ auth.result = {OkNone}

(* C11: every run of authenticate ends Authenticated (success returned) or  *)
(* Failed (a typed error returned), whatever the platform answers; it never *)
(* aborts the process and its result is never anything else.                *)
C11_EndsAuthenticatedOrFailed ==
    /\ auth.pc # "Aborted"
    /\ \A res \in auth.result : res.status \in {"Ok", "Err"}
    /\ auth.pc = "Done" <=> auth.result # {}

----------------------------------------------------------------------------
(* Properties of addressing (SpecAddr) *)

(* C12: for a content type with an address template (Folder, Exercise) and  *)
(* a numeric id, the id pattern of the listing entries applied to           *)
(* querypath_from_id(id) gives back that id.                                *)
C12_AddressRoundTrip ==
    (addr.pc = "Extracted" /\ addr.type \in {"Folder", "Exercise"})
        => addr.extracted = {addr.id}

(* C13: Folder::querypath_from_id(id) is "goto.php/fold/" followed by id,   *)
(* for every id; for id "123" it is exactly "goto.php/fold/123".            *)
C13_FolderAddressTemplate ==
    (addr.pc \in {"Addressed", "Extracted"} /\ addr.type = "Folder")
        => /\ addr.querypath = {"goto.php/fold/" \o addr.id}
           /\ addr.id = "123" => addr.querypath = {"goto.php/fold/123"}

C13_Witness ==
    /\ addr.pc = "Addressed"
    /\ addr.type = "Folder"
    /\ addr.id = "123"
    /\ addr.querypath = {"goto.php/fold/123"}

(* C14, as claimed: a grade page and an assignment have no type             *)
(* discriminator and no address for any id; a content type has an address   *)
(* only if it has a discriminator.                                          *)
C14_NoDiscriminatorNoAddress ==
    /\ (addr.pc # "Idle" /\ addr.type \in {"GradePage", "Assignment"})
          => addr.identifier = {}
    /\ (addr.pc = "Addressed" /\ addr.type \in {"GradePage", "Assignment"})
          => addr.querypath = {}
    /\ addr.querypath # {} => addr.identifier # {}

(* C14, amended: a grade page has no type discriminator, an assignment has  *)
(* the discriminator "ass"; neither has an address for any id; a content    *)
(* type has an address only if it has a discriminator.                      *)
C14_AssignmentDiscriminatedNoAddress ==
    /\ (addr.pc # "Idle" /\ addr.type = "GradePage") => addr.identifier = {}
    /\ (addr.pc # "Idle" /\ addr.type = "Assignment") => addr.identifier = {"ass"}
    /\ (addr.pc = "Addressed" /\ addr.type \in {"GradePage", "Assignment"})
          => addr.querypath = {}
    /\ addr.querypath # {} => addr.identifier # {}

C14_Witness ==
    /\ addr.pc = "Addressed"
    /\ addr.type = "Assignment"
    /\ addr.id = "12"
    /\ addr.identifier = {"ass"}
    /\ addr.querypath = {}

----------------------------------------------------------------------------
(* Properties of post_querypath_form (SpecPost) *)

(* C15: post_querypath_form returns an error whenever the address of the    *)
(* final response indicates the error page ("error" in it) or its status is *)
(* of an error class (4xx, 5xx), and returns the response otherwise; each   *)
(* call issues exactly one POST, whatever its outcome.                      *)
C15_PostFailsOnErrorPageOrStatus ==
    post.calls > 0
        => /\ Len(post.sent) = post.calls
           /\ \A i \in DOMAIN post.sent : post.sent[i].kind = "post_form"
           /\ post.response = {} => post.result.status = "Err"
           /\ \A r \in post.response :
                 LET bad == \/ \E i \in 1..(Len(r.url) - 4) : SubSeq(r.url, i, i + 4) = "error"
                            \/ r.status \in 400..599
                 IN  /\ bad => (post.result.status = "Err" /\ post.result.value = {})
                     /\ ~bad => (post.result.status = "Ok" /\ post.result.value = {r})

C15_Witness ==
    /\ post.calls = 2
    /\ Len(post.sent) = 2
    /\ post.result.status = "Err"
    /\ \E r \in post.response : r.status = 200 /\ r.url = "https://ilias/error.php"

----------------------------------------------------------------------------
(* Properties of the folder listing (SpecFolder) *)

(* The four structural markers of a query path, in the order of the list *)
FileDownloadMarker(q) ==
    \/ Occurrences(q, "target=file_") # {}
    \/ Occurrences(q, "baseClass=ilrepositorygui") # {} /\ Occurrences(q, "cmd=sendfile") # {}

PluginForwardMarker(q) ==
    /\ Occurrences(q, "baseClass=ilObjPluginDispatchGUI") # {}
    /\ Occurrences(q, "cmd=forward") # {}
    /\ Occurrences(q, "forwardCmd=showContent") # {}

GenericViewMarker(q) ==
    Occurrences(q, "baseClass=ilrepositorygui") # {} /\ Occurrences(q, "cmd=view") # {}

ExercisePathMarker(q) == Occurrences(q, "/exc/") # {}

(* The variant of the earliest marker a query path matches, if any *)
FirstMatch(q) ==
    IF FileDownloadMarker(q) THEN {"File"}
    ELSE IF PluginForwardMarker(q) THEN {"Opencast"}
    ELSE IF GenericViewMarker(q) THEN {"Viewable"}
    ELSE IF ExercisePathMarker(q) THEN {"Exercise"}
    ELSE {}

(* The iterations of the listing loop that reached the classification *)
Classified == {i \in DOMAIN folder.iterations : folder.iterations[i].id # {}}

KindOf(it) == {v.kind : v \in it.result.value}

(* What the chosen branch needs besides the marker: a file entry an         *)
(* extension property and a later date property, a viewable entry a ref_id  *)
HasDateProperty(properties) ==
    \E i \in 2..Len(properties) :
        \E day \in {"Heute", "12. Jan 2024"}, time \in {"12:00", "09:30"} :
            properties[i] = day \o ", " \o time

BranchCanBuild(kind, q, properties) ==
    /\ kind = "File" => HasDateProperty(properties)
    /\ kind = "Viewable"
          => \E i \in Occurrences(q, "ref_id=") : IsDigit(SubSeq(q, i + 7, i + 7))

(* C16, as claimed: the variant of an entry is that of the earliest marker  *)
(* its query path matches: file-download, plugin-forward, generic-view,     *)
(* exercise-path, in this order.                                            *)
C16_FirstMarkerGivesVariant ==
    \A i \in Classified :
        LET it == folder.iterations[i]
            q == Unwrap(it.querypath)
        IN  FirstMatch(q) # {} => (it.result.status = "Ok" /\ KindOf(it) = FirstMatch(q))

(* C16, amended: the branch is that of the earliest marker matched; an      *)
(* element that is built has that variant, never a later one; it is built   *)
(* when the branch finds what it needs besides the marker, and otherwise    *)
(* the entry fails (a file entry without any property aborts); without a    *)
(* marker the entry fails.                                                  *)
C16_FirstMarkerGivesBranch ==
    \A i \in Classified :
        LET it == folder.iterations[i]
            q == Unwrap(it.querypath)
            properties == Unwrap(folder.doc).entries[i].properties
        IN  /\ it.result.status = "Ok" => (FirstMatch(q) # {} /\ KindOf(it) = FirstMatch(q))
            /\ FirstMatch(q) = {} => it.result.status = "Err"
            /\ \A kind \in FirstMatch(q) :
                  /\ BranchCanBuild(kind, q, properties) => it.result.status = "Ok"
                  /\ ~BranchCanBuild(kind, q, properties) => it.result.status # "Ok"
                  /\ (kind = "File" /\ properties = <<>>) <=> it.result.status = "Panic"

(* A listing of two entries that both match the exercise-path marker and an *)
(* earlier one: generic-view the first, plugin-forward the second           *)
C16_Witness ==
    /\ folder.pc = "Parsed"
    /\ folder.result.status = "Ok"
    /\ Len(folder.iterations) = 2
    /\ KindOf(folder.iterations[1]) = {"Viewable"}
    /\ ExercisePathMarker(Unwrap(folder.iterations[1].querypath))
    /\ KindOf(folder.iterations[2]) = {"Opencast"}
    /\ ExercisePathMarker(Unwrap(folder.iterations[2].querypath))

(* The id pattern finds id in the address: one of its prefixes, then id,    *)
(* then no further digit                                                    *)
IdFoundIn(href, id) ==
    \E p \in {"ref_id=", "target=file_", "exc/"} :
        \E i \in Occurrences(href, p \o id) :
            LET after == i + Len(p) + Len(id) IN
            after > Len(href) \/ ~IsDigit(SubSeq(href, after, after))

HasId(href) == \E n \in 1..Len(href) : \E i \in 1..Len(href) :
                  i + n - 1 <= Len(href) /\ IsDigits(SubSeq(href, i, i + n - 1))
                     /\ IdFoundIn(href, SubSeq(href, i, i + n - 1))

(* An entry that matches none of the markers, or has no id to extract *)
Unrecognised(entry) ==
    \/ entry.title = {}
    \/ \E t \in entry.title : t.href = {}
    \/ \E t \in entry.title : \E href \in t.href : FirstMatch(href) = {} \/ ~HasId(href)

(* C17: a Folder that is returned has exactly one element per listing       *)
(* entry, in listing order, each with an id extracted from the query path   *)
(* of its entry; when an entry matches no marker or has no id to extract,   *)
(* the parse fails and no Folder is returned.                               *)
C17_OneElementPerEntry ==
    folder.pc = "Parsed"
        => LET entries == Unwrap(folder.doc).entries IN
           /\ \A f \in folder.result.value :
                 /\ Len(f.elements) = Len(entries)
                 /\ \A i \in DOMAIN entries :
                       /\ entries[i].title # {}
                       /\ \A t \in entries[i].title :
                             /\ t.href # {}
                             /\ \A href \in t.href :
                                   /\ IdFoundIn(href, f.elements[i].id)
                                   /\ \/ HasSuffix(href, f.elements[i].querypath)
                                      \/ HasSuffix(href \o "?", f.elements[i].querypath)
           /\ (\E i \in DOMAIN entries : Unrecognised(entries[i]))
                 => (folder.result.status # "Ok" /\ folder.result.value = {})

C17_Witness ==
    /\ folder.pc = "Parsed"
    /\ folder.result.status = "Ok"
    /\ \E f \in folder.result.value :
          /\ Len(f.elements) = 2
          /\ f.elements[1].kind = "Exercise" /\ f.elements[1].id = "41"
          /\ f.elements[2].kind = "File" /\ f.elements[2].id = "12"

----------------------------------------------------------------------------
(* Properties of the grade page (SpecGrade) *)

(* The team shape: a team marker delimited by brackets *)
TeamShape(row) ==
    \E t \in row.team :
        \E a \in 1..Len(t), b \in 1..Len(t) :
            /\ a < b
            /\ SubSeq(t, a, a) = "(" /\ SubSeq(t, b, b) = ")"
            /\ \A k \in (1..(a - 1)) \cup ((b + 1)..Len(t)) : SubSeq(t, k, k) = " "

(* The signed-in-user shape: a sign-in name with "@" and a display name *)
UserShape(row) ==
    /\ \E n \in row.signin : \E k \in 1..Len(n) : SubSeq(n, k, k) = "@"
    /\ row.name # {}

(* A team marker element whose text has neither bracket: an unassigned user *)
UnassignedShape(row) ==
    \E t \in row.team : \A k \in 1..Len(t) : SubSeq(t, k, k) \notin {"(", ")"}

C19_TeamIdentifier ==
    grade.pc = "Row"
        => \A t \in grade.rows[1].team :
              /\ \A n \in 0..(Len(t) - 2) :
                    LET x == SubSeq(t, 2, n + 1) IN
                    t = "(" \o x \o ")"
                       => /\ grade.identifier.status = "Ok"
                          /\ grade.identifier.value = {"Team " \o x}
                          /\ \A sub \in grade.result.value : sub.identifier = "Team " \o x
              /\ t = "(42)" => grade.identifier.value = {"Team 42"}
              /\ (Occurrences(t, "(") = {}) # (Occurrences(t, ")") = {})
                    => (/\ grade.identifier.status = "Err"
                        /\ grade.result.status = "Err"
                        /\ grade.result.value = {})

C19_Witness ==
    /\ grade.pc = "Row"
    /\ grade.rows[1].team = {"(42)"}
    /\ grade.result.status = "Ok"
    /\ \E sub \in grade.result.value : sub.identifier = "Team 42"

(* C20: a row without a team marker, with the display name                  *)
(* "Mustermann, Max" and a sign-in name that contains "@", has the          *)
(* identifier "Max_Mustermann_" followed by the sign-in name.               *)
C20_FirstnameLastnameSignin ==
    (/\ grade.pc = "Row"
     /\ grade.rows[1].team = {}
     /\ grade.rows[1].name = {"Mustermann, Max"}
     /\ grade.rows[1].signin = {"uxyz@student.kit.edu"})
        => /\ grade.identifier.value = {"Max_Mustermann_uxyz@student.kit.edu"}
           /\ \A sub \in grade.result.value :
                 sub.identifier = "Max_Mustermann_uxyz@student.kit.edu"

----------------------------------------------------------------------------
(* Properties of the feedback upload (SpecFeedback) *)

(* The multipart POSTs among the requests of a call *)
MultipartPosts(requests) == SelectSeq(requests, LAMBDA r : r.kind = "multipart")

(* The page the call of upload got, and the endpoint its script embeds *)
UploadPage == Unwrap(upload.response)

EmbeddedEndpoint == CapturesOf(UploadPage)

(* The reply to the POST reports status 1 *)
ReportsStatusOne ==
    /\ upload.reply # NoneOpt
    /\ ~IsErrorStatus(Unwrap(upload.reply).status)
    /\ Unwrap(upload.reply).json = Some(1)

----------------------------------------------------------------------------
(* Where the credentials go (SpecAuth) *)

(* The request has a field for the username or the password, or a field     *)
(* whose value is one of them (the relay state is an address, held by its    *)
(* pieces)                                                                   *)
HoldsCredentials(request) ==
    \E i \in DOMAIN request.form :
        \/ request.form[i][1] \in {"j_username", "j_password"}
        \/ IF request.form[i][1] = "RelayState"
           THEN \E k \in DOMAIN request.form[i][2] :
                   request.form[i][2][k] \in {auth.username, auth.password}
           ELSE request.form[i][2] \in {auth.username, auth.password}

(* The request went to the action of the login form, set as the querypath   *)
(* of the address the provider selection landed on                           *)
SentToLoginFormAction(request) ==
    /\ auth.landing # {}
    /\ auth.shib_login_fragment # {}
    /\ Unwrap(auth.shib_login_fragment).csrf # {}
    /\ \E i \in PostForms(Unwrap(auth.shib_login_fragment)) :
          /\ Unwrap(auth.shib_login_fragment).forms[i].action # {}
          /\ request.url = AsStr(SetQuerypath(Unwrap(auth.landing),
                                   Unwrap(Unwrap(auth.shib_login_fragment).forms[i].action)))

(* C25: during authenticate the username and the password are in at most    *)
(* one request, the credential POST to the action of the identity            *)
(* provider's login form; they are neither in the provider-selection POST    *)
(* nor in the assertion POST, and in no request at all when the login page   *)
(* has no CSRF field.                                                        *)
C25_CredentialsOnlyToLoginForm ==
    auth.pc # "Start" =>
        /\ Cardinality({i \in DOMAIN auth.requests : HoldsCredentials(auth.requests[i])}) <= 1
        /\ \A i \in DOMAIN auth.requests :
              HoldsCredentials(auth.requests[i]) =>
                  /\ auth.requests[i].kind = "credential"
                  /\ i = 2
                  /\ SentToLoginFormAction(auth.requests[i])
        /\ (auth.shib_login_fragment # {} /\ Unwrap(auth.shib_login_fragment).csrf = {}) =>
              \A i \in DOMAIN auth.requests : ~HoldsCredentials(auth.requests[i])

(* A handshake that sent all three POSTs, the credentials in the second     *)
(* alone                                                                     *)
C25_Witness ==
    /\ auth.pc = "Done"
    /\ Len(auth.requests) = 3
    /\ ~HoldsCredentials(auth.requests[1])
    /\ HoldsCredentials(auth.requests[2])
    /\ SentToLoginFormAction(auth.requests[2])
    /\ ~HoldsCredentials(auth.requests[3])
    /\ auth.requests[3].kind = "assertion"

----------------------------------------------------------------------------
(* A failed get_submission (SpecRef) *)

(* C26: a call of get_submission on an Unresolved reference fetches the      *)
(* submission page at the reference's querypath; if the call fails, at the   *)
(* fetch of the submission page, at the fetch of the upload page or in the   *)
(* parse, the reference is afterwards what it was, Unresolved with the same  *)
(* querypath; it is Resolved afterwards only if the call succeeded, having   *)
(* fetched both pages.                                                       *)
C26_FailureLeavesUnresolved ==
    (last.op = "get_submission" /\ last.pre.tag = "Unresolved") =>
        /\ last.fetches # <<>>
        /\ last.fetches[1] = Unwrap(last.pre.querypath)
        /\ last.result.status # "Ok" =>
              /\ refs["submission"] = last.pre
              /\ refs["submission"].tag = "Unresolved"
        /\ refs["submission"].tag = "Resolved" =>
              /\ last.result.status = "Ok"
              /\ last.result.value = refs["submission"].value
              /\ Len(last.fetches) = 2
        /\ refs["submission"].tag \in {"Unresolved", "Resolved"}

(* A second call failed after the upload page was fetched, on a reference    *)
(* that a first failed call had left Unresolved: both calls fetched          *)
C26_Witness ==
    /\ last.op = "get_submission"
    /\ last.pre.tag = "Unresolved"
    /\ last.result.status = "Err"
    /\ Len(last.fetches) = 2
    /\ stats["submission"].calls = 2
    /\ stats["submission"].oks = 0
    /\ stats["submission"].fetches >= 3
    /\ refs["submission"] = last.pre

----------------------------------------------------------------------------
(* Properties of the uploads to a folder (SpecUploadFiles) *)

(* By what the platform answered, the step of a file that fails: the part,  *)
(* the upload POST or its reply, the finish POST or its reply                *)
ExchangeFails(x) ==
    \/ ~x.part_ok
    \/ x.upload = NoneOpt
    \/ IsErrorStatus(Unwrap(x.upload).status)
    \/ Unwrap(x.upload).json = NoneOpt
    \/ x.finish = NoneOpt
    \/ IsErrorStatus(Unwrap(x.finish).status)
    \/ Unwrap(x.finish).text = NoneOpt
    \/ Unwrap(Unwrap(x.finish).text).alert

(* The POSTs of a call, which follow the GET of the upload page *)
FilePosts == Tail(upload_files.requests)

(* The k-th POST is for the file (k + 1) \div 2: its upload POST when k is  *)
(* odd, its finish POST when k is even                                       *)
PostInOrder(k) ==
    /\ FilePosts[k].kind = "multipart"
    /\ (k + 1) \div 2 <= Len(upload_files.files)
    /\ IF k % 2 = 1
       THEN /\ Some(FilePosts[k].querypath)
                  = CapturesOf(Unwrap(upload_files.response))
            /\ FilePosts[k].form
                  = << <<"file[0]", upload_files.files[(k + 1) \div 2].path>> >>
       ELSE /\ Some(FilePosts[k].querypath)
                  = Unwrap(Unwrap(upload_files.response).form).action
            /\ FilePosts[k].form[1][2] = upload_files.files[(k + 1) \div 2].name

(* C27: Folder::upload_files on a folder without an upload page fails with  *)
(* no request.  Otherwise its first request is the one GET of the upload     *)
(* page, and the POSTs that follow are for the files in input order, for     *)
(* each file the upload POST before the finish POST.  Only the last request  *)
(* can have failed; a file whose step fails (transport error, error status,  *)
(* undecodable reply, error banner in the finish reply) is the last file     *)
(* any request is sent for, and the call does not succeed; a call that       *)
(* succeeds has sent both POSTs of every file.                               *)
C27_UploadsInOrderUntilFailure ==
    upload_files.pc = "Done" =>
        IF upload_files.upload_page_querypath = NoneOpt
        THEN upload_files.requests = <<>> /\ upload_files.result.status = "Err"
        ELSE /\ upload_files.requests # <<>>
             /\ upload_files.requests[1].kind = "get"
             /\ Some(upload_files.requests[1].querypath) = upload_files.upload_page_querypath
             /\ \A k \in DOMAIN FilePosts : PostInOrder(k)
             /\ \A k \in DOMAIN upload_files.requests :
                   k < Len(upload_files.requests) => upload_files.requests[k].ok
             /\ \A j \in DOMAIN upload_files.files :
                   ExchangeFails(upload_files.exchanges[j]) =>
                      /\ Len(FilePosts) <= 2 * j
                      /\ upload_files.result.status # "Ok"
             /\ upload_files.result.status = "Ok" =>
                   /\ Len(FilePosts) = 2 * Len(upload_files.files)
                   /\ \A k \in DOMAIN upload_files.requests : upload_files.requests[k].ok

(* The first file went through, the finish reply for the second shows the   *)
(* error banner: five requests, and the call failed                          *)
C27_Witness ==
    /\ upload_files.pc = "Done"
    /\ Len(upload_files.files) = 2
    /\ ~ExchangeFails(upload_files.exchanges[1])
    /\ upload_files.exchanges[2].finish = Some([status |-> 200, text |-> Some([alert |-> TRUE])])
    /\ Len(upload_files.requests) = 5
    /\ upload_files.result.status = "Err"

----------------------------------------------------------------------------
(* Properties of the deletion of a folder element (SpecElement) *)

(* The delete page the element got has a confirmation form with an action *)
ConfirmationFound ==
    /\ element.page # NoneOpt
    /\ Unwrap(element.page).form # NoneOpt
    /\ Unwrap(Unwrap(element.page).form).action # NoneOpt

(* C28: FolderElement::delete on an element without a deletion endpoint      *)
(* fails with no request.  With an endpoint it issues one GET, of the        *)
(* endpoint, and then at most one POST: the confirmation POST, to the action *)
(* of the confirmation form, carrying the element's own id in form/input_0;  *)
(* the POST is issued only if the delete page was fetched and the            *)
(* confirmation form and its action were found on it.                        *)
C28_DeleteGetsThenConfirmsOnce ==
    element.pc = "Done" =>
        IF element.deletion_querypath = NoneOpt
        THEN element.requests = <<>> /\ element.result.status = "Err"
        ELSE /\ Len(element.requests) \in {1, 2}
             /\ element.requests[1].kind = "get"
             /\ element.requests[1].querypath = Unwrap(element.deletion_querypath)
             /\ Len(element.requests) = 2 =>
                   /\ element.requests[1].ok
                   /\ ConfirmationFound
                   /\ element.requests[2].kind = "post_form"
                   /\ Some(element.requests[2].querypath)
                         = Unwrap(Unwrap(element.page).form).action
                   /\ element.id # NoneOpt
                   /\ element.requests[2].form = << <<"form/input_0", Unwrap(element.id)>> >>
             /\ (ConfirmationFound /\ element.id # NoneOpt) => Len(element.requests) = 2
             /\ element.result.status = "Ok" =>
                   Len(element.requests) = 2 /\ element.requests[2].ok

(* An exercise with a deletion endpoint was deleted: the GET, then the       *)
(* confirmation POST with its id                                             *)
C28_Witness ==
    /\ element.pc = "Done"
    /\ element.kind = "Exercise"
    /\ element.deletion_querypath = Some("ilias.php?cmd=delete&ref_id=12")
    /\ Len(element.requests) = 2
    /\ element.requests[2].form = << <<"form/input_0", "12">> >>
    /\ element.result.status = "Ok"


(* C23: no error is swallowed.  When the fetch of the action menu, which     *)
(* get_deletion_querypath issues to find the deletion endpoint, fails, the   *)
(* parse does not go on with a default in place of the endpoint: no element  *)
(* is built from a failed fetch.                                             *)
C23_FailedMenuFetchBuildsNothing ==
    (element.lookup # <<>> /\ ~element.lookup[1].ok) => element.pc \notin {"Built", "Done"}

----------------------------------------------------------------------------
(* Properties of the parse of assignments and exercises (SpecExercise) *)

(* The href of the title link of a listing item, if it has one *)
DetailQuerypath(item) ==
    IF item.title = NoneOpt THEN NoneOpt ELSE Unwrap(item.title).href

(* A reference right after the parse: Unresolved at the querypath the page  *)
(* links to, Unavailable when the page has no such link                     *)
FreshReference(reference, querypath) ==
    IF querypath = NoneOpt
    THEN reference.tag = "Unavailable"
    ELSE reference.tag = "Unresolved" /\ reference.querypath = querypath

(* C24: parsing is lazy about the child facets.  Assignment::parse issues    *)
(* at most one fetch, of the detail page the item links to, and exactly that *)
(* one whenever it succeeds; it never fetches the submission page, and the   *)
(* assignment's submission reference is Unresolved at the linked querypath   *)
(* or Unavailable without a link.  Exercise::parse fetches the detail pages  *)
(* of its assignments, in order, and nothing else, the grades page never;    *)
(* its grades reference is Unresolved, or Unavailable without a grades tab,  *)
(* and the submission references of its assignments are not Resolved.        *)
C24_ParseFetchesDetailPagesOnly ==
    exercise.pc = "Done" =>
        IF exercise.op = "Assignment::parse"
        THEN /\ Len(exercise.fetches) <= 1
             /\ \A i \in DOMAIN exercise.fetches :
                   Some(exercise.fetches[i]) = DetailQuerypath(Unwrap(exercise.item))
             /\ exercise.result.status = "Ok" =>
                   /\ Len(exercise.fetches) = 1
                   /\ FreshReference(Unwrap(exercise.result.value).submission,
                                     SubmissionPageQuerypath(Unwrap(exercise.response)))
        ELSE /\ Len(exercise.fetches) <= Len(exercise.items)
             /\ \A i \in DOMAIN exercise.fetches :
                   Some(exercise.fetches[i]) = DetailQuerypath(exercise.items[i].item)
             /\ exercise.result.status = "Ok" =>
                   /\ Len(exercise.fetches) = Len(exercise.items)
                   /\ Len(Unwrap(exercise.result.value).assignments) = Len(exercise.items)
                   /\ Unwrap(exercise.result.value).grades.tag
                         = IF Unwrap(exercise.header).grades_link = NoneOpt
                           THEN "Unavailable" ELSE "Unresolved"
                   /\ \A i \in DOMAIN exercise.items :
                         FreshReference(Unwrap(exercise.result.value).assignments[i].submission,
                             SubmissionPageQuerypath(Unwrap(exercise.items[i].response)))

(* An exercise with a grades tab and two assignments, the first with a link  *)
(* to its submission page, was parsed with two fetches                       *)
C24_Witness ==
    /\ exercise.pc = "Done"
    /\ exercise.op = "Exercise::parse"
    /\ exercise.result.status = "Ok"
    /\ Len(exercise.items) = 2
    /\ Len(exercise.fetches) = 2
    /\ Unwrap(exercise.result.value).grades.tag = "Unresolved"
    /\ Unwrap(exercise.result.value).grades.querypath = {"ilias.php?ref_id=77&cmd=showGradesOverview&ref_id=9"}
    /\ Unwrap(exercise.result.value).assignments[1].submission.tag = "Unresolved"
    /\ Unwrap(exercise.result.value).assignments[2].submission.tag = "Unavailable"


(* The attachment panel of the detail page the parse got *)
AttachmentPanel == Unwrap(exercise.response).attachment_panel

(* The parse got its detail page and past the instruction panel *)
ReachedAttachments ==
    /\ exercise.pc = "Done"
    /\ exercise.op = "Assignment::parse"
    /\ exercise.fetches # <<>>
    /\ exercise.response # NoneOpt
    /\ Instructions(Unwrap(exercise.response).instruction_panel).status = "Ok"

(* C29: when the detail page has an attachments panel with n rows,           *)
(* Assignment::parse never aborts on it; when it succeeds it yields exactly  *)
(* n - 2 attachments for n >= 2, none for n < 2, and none without a panel;   *)
(* with fewer than two rows it succeeds.                                     *)
C29_AllRowsButTheLastTwo ==
    ReachedAttachments =>
        /\ exercise.result.status # "Panic"
        /\ exercise.result.status = "Ok" =>
              Len(Unwrap(exercise.result.value).attachments)
                 = IF AttachmentPanel = NoneOpt \/ Len(Unwrap(AttachmentPanel)) < 2 THEN 0
                   ELSE Len(Unwrap(AttachmentPanel)) - 2
        /\ (AttachmentPanel # NoneOpt /\ Len(Unwrap(AttachmentPanel)) < 2) =>
              exercise.result.status = "Ok"

(* C29, the part the code keeps: a parse that succeeds on a panel of n >= 2  *)
(* rows yields the first n - 2 rows as attachments, in order, whatever the   *)
(* last two rows are; without a panel it yields none.                        *)
C29_TwoOrMoreRows ==
    (ReachedAttachments /\ exercise.result.status = "Ok") =>
        IF AttachmentPanel = NoneOpt
        THEN Unwrap(exercise.result.value).attachments = <<>>
        ELSE /\ Len(Unwrap(AttachmentPanel)) >= 2
             /\ Len(Unwrap(exercise.result.value).attachments)
                   = Len(Unwrap(AttachmentPanel)) - 2
             /\ \A i \in DOMAIN Unwrap(exercise.result.value).attachments :
                   Some(Unwrap(exercise.result.value).attachments[i].name)
                      = Unwrap(AttachmentPanel)[i].filename

----------------------------------------------------------------------------
(* Properties of the date loops (FairSpecScan) *)

(* The cells before position i hold no date *)
NoDateBefore(i) == \A j \in 1..(i - 1) : ParseDate(scan.cells[j]) = NoneOpt

(* Where a loop stands: while it runs it has passed only cells that are not  *)
(* dates; when it has ended with a date, that is the date of the first cell  *)
(* that parses as one and the cell last taken; when it has ended with an     *)
(* error, no cell is a date and all were taken                               *)
ScanStopsAtFirstDate ==
    /\ scan.next <= Len(scan.cells) + 1
    /\ scan.pc = "Scanning" => NoDateBefore(scan.next)
    /\ (scan.pc = "Done" /\ scan.result.status = "Ok") =>
          /\ scan.next >= 2
          /\ NoDateBefore(scan.next - 1)
          /\ scan.result.value = ParseDate(scan.cells[scan.next - 1])
          /\ scan.result.value # NoneOpt
    /\ (scan.pc = "Done" /\ scan.result.status # "Ok") =>
          /\ scan.result = NoDateLeft(scan.loop)
          /\ NoDateBefore(Len(scan.cells) + 1)
          /\ scan.next = Len(scan.cells) + 1

(* C30: the loops that look for a date always terminate: over a finite list  *)
(* of cells a loop that has started ends, at the first cell that parses as   *)
(* a date, or with an error once the cells are exhausted.                    *)
C30_DateLoopsTerminate ==
    /\ [](ScanStopsAtFirstDate)
    /\ (scan.pc = "Scanning") ~> (scan.pc = "Done")

(* The loop over the columns ended with the date of the third cell, having   *)
(* passed two cells that are not dates                                       *)
C30_Witness ==
    /\ scan.pc = "Done"
    /\ scan.loop = "columns"
    /\ scan.result.status = "Ok"
    /\ Len(scan.cells) = 3
    /\ scan.next = 4

----------------------------------------------------------------------------
(* C22: no request is sent again after a failure                             *)

(* Of a list of requests that record their success: only the last one can    *)
(* have failed, and if it failed the call ended with an error                *)
EndsAtFailure(requests, result) ==
    /\ \A k \in 1..(Len(requests) - 1) : requests[k].ok
    /\ (requests # <<>> /\ ~requests[Len(requests)].ok) => result.status = "Err"

(* No address is fetched twice *)
NoRefetch(fetches) ==
    \A i, j \in DOMAIN fetches : i # j => fetches[i] # fetches[j]

(* The errors of authenticate that a failing request or an unreadable        *)
(* response raises, with the request that failed                             *)
AuthRequestErrors ==
    {<<"Could not send multipart form", "selection">>,
     <<"Could not get text for login page", "selection">>,
     <<"Could not post login form", "credential">>,
     <<"Could not get continuation page during login", "credential">>,
     <<"Could not get response for ilias home page", "assertion">>}

AuthEndsAtFailure ==
    /\ \A kind \in {"selection", "credential", "assertion"} :
          Cardinality(RequestsOf(kind)) <= 1
    /\ Len(auth.requests) <= 3
    /\ \A e \in AuthRequestErrors :
          (auth.pc = "Done" /\ auth.result = {Err(e[1])}) =>
             auth.requests[Len(auth.requests)].kind = e[2]

(* resolve and get_submission fetch the page, then at most the page the      *)
(* parse asks for; a page that did not come is the only fetch                *)
RefEndsAtFailure ==
    last.op \in {"resolve", "get_submission"} =>
        /\ NoRefetch(last.fetches)
        /\ Len(last.fetches) <= 2
        /\ last.result = Err("Could not get submission page") => Len(last.fetches) = 1
        /\ (last.fetches # <<>> /\ last.pre.tag = "Unresolved"
              /\ last.fetches[Len(last.fetches)] # Unwrap(last.pre.querypath)) =>
             Len(last.fetches) = 2

(* C22: within one call of authenticate, get_querypath, post_querypath_form, *)
(* post_querypath_multipart, download_file, resolve, get_submission, delete  *)
(* or upload no request is sent again after a failure: the first failing     *)
(* request is the last request of the call, and the call ends with an error. *)
C22_NoRequestAfterFailure ==
    /\ AuthEndsAtFailure
    /\ RefEndsAtFailure
    /\ Len(post.sent) = post.calls
    /\ (post.calls > 0 /\ post.response = NoneOpt) => post.result.status = "Err"
    /\ client.pc = "Done" => Len(client.requests) = 1
    /\ EndsAtFailure(client.requests, client.result)
    /\ EndsAtFailure(element.requests, element.result)
    /\ EndsAtFailure(upload.requests, upload.result)
    /\ EndsAtFailure(upload_files.requests, upload_files.result)

(* get_querypath got no response: the one GET, and the error                 *)
C22_Witness ==
    /\ client.pc = "Done"
    /\ client.op = "get_querypath"
    /\ Len(client.requests) = 1
    /\ ~client.requests[1].ok
    /\ client.result = Err("Could not get text for querypath")

====
